---- MODULE Spec2Model ----
(***************************************************************************)
(* GestureStrike: the match state machine (gameReducer of App.tsx), the    *)
(* App's dispatching callbacks, the HandTracker's gesture classifiers and  *)
(* per-frame propagation of HandState, the session analytics functions and *)
(* the backend's register and protected routes, as state machines.         *)
(***************************************************************************)
EXTENDS Integers, Sequences, FiniteSets, TLC

VARIABLES
    gs,          \* the GameState held by useReducer(gameReducer, ...)
    lastAction,  \* the GameAction most recently handed to dispatch
    pc,          \* position of the one-shot reducer application (SpecReducerFn)
    inState,     \* the GameState the one-shot application started from
    hitRun,      \* history: accepted hits since the last miss or reset
    lastStateRef,  \* HandTracker: lastStateRef.current
    canvasRef,     \* HandTracker: canvasRef.current is set (the canvas is mounted)
    camera,        \* HandTracker: the getUserMedia promise, the stream's tracks, the video element
    loop,          \* HandTracker: processFrame's position and the hands.send requests in flight
    generator,     \* CinematicGenerator: its state, requestAbortRef and the requests it made
    fault,         \* backend: whether the fs calls succeed, and whether writeQueue is a rejected promise
    returned,      \* backend: the value a caller of JsonFileStore.read or getSnapshot holds
    frameLog,      \* history: per processed frame, what was seen and propagated
    selectedDifficulty,  \* App: the persisted difficulty selection
    handState,           \* App: useState<HandState>
    reloadTimeoutRef,    \* App: reloadTimeoutRef.current holds a pending timer
    dispatched,          \* history: the actions the last handler dispatched
    timerStale,          \* history: the pending reload timer predates the last START_MATCH / RETURN_MENU
    pendingTimers,       \* App: the reload timeouts set by window.setTimeout and not yet fired
    isCinematicOpen,     \* App: useState(false), the cinematic overlay is open
    footstepIntervals,   \* App: the footstep intervals set by window.setInterval and not cleared
    stepCycleRef,        \* App: stepCycleRef.current, the footstep ticks so far
    inLandmarks, \* classifier: the landmark set handed to detectMovement / detectCombat
    gesture,     \* classifier: the gesture returned
    history,     \* analytics: the SessionSnapshot history
    lastAppend,  \* history: arguments of the last appendSessionHistory call
    insights,    \* analytics: input / result of the insight functions
    store,       \* backend: JsonFileStore.state
    calls,       \* backend: the AuthService.register calls started so far
    reply,       \* backend: the last HTTP exchange (request, response, store before and after)
    disk,        \* backend: the data file and its temporary file
    writes,      \* backend: per JsonFileStore.write call, its position and payload
    writeQueue,  \* backend: the persists chained on JsonFileStore.writeQueue, oldest first
    cinematicService,  \* backend: deps.cinematicService is configured
    clock        \* backend: Date.now() in days

reducerVars == <<gs, lastAction, pc, inState, hitRun>>
sideVars == <<generator, fault, returned>>
mountVars == <<canvasRef, camera, loop, sideVars>>
trackerVars == <<lastStateRef, mountVars, frameLog>>
overlayVars == <<pendingTimers, isCinematicOpen, footstepIntervals, stepCycleRef>>
appVars == <<selectedDifficulty, handState, reloadTimeoutRef, dispatched, timerStale,
             overlayVars>>
classifyVars == <<inLandmarks, gesture>>
analyticsVars == <<history, lastAppend, insights>>
serverVars == <<disk, writes, writeQueue, cinematicService, clock>>
backendVars == <<store, calls, reply, serverVars>>
libVars == <<classifyVars, analyticsVars, backendVars>>
vars == <<gs, lastAction, pc, inState, hitRun, lastStateRef, canvasRef, camera, loop,
          generator, fault, returned, frameLog,
          selectedDifficulty, handState, reloadTimeoutRef, dispatched, timerStale,
          pendingTimers, isCinematicOpen, footstepIntervals, stepCycleRef,
          inLandmarks, gesture, history, lastAppend, insights, store, calls, reply,
          disk, writes, writeQueue, cinematicService, clock>>

(***************************************************************************)
(* Bounds of the model.                                                    *)
(***************************************************************************)
MaxShots == 11   \* REGISTER_SHOT is dispatched while stats.shotsFired < MaxShots
MaxMisses == 1   \* a missing shot is dispatched while shotsFired - shotsHit < MaxMisses
MaxKills == 1    \* ENEMY_DEFEATED is dispatched while enemiesDefeated < MaxKills
MaxFrames == 3   \* camera frames handed to onResults in the tracker specification
MaxRegisters == 3  \* AuthService.register calls that get past the e-mail lookup
MaxMatches == 1    \* matches the store holds
MaxItems == 3    \* appendSessionHistory is called with maxItems in 0..MaxItems
MaxHistory == 3  \* deriveSessionInsights is applied to histories of up to MaxHistory sessions
AppMaxShots == 1 \* shots the rendering layer reports per match in the App specification
MaxSteps == 2    \* footstep ticks counted in stepCycleRef
MaxWrites == 3   \* concurrent JsonFileStore.write calls
MaxSubmissions == 2  \* accepted match submissions
MaxTicks == 1    \* times the clock is advanced by two days

(***************************************************************************)
(* Program constants.                                                      *)
(***************************************************************************)
BASE_AMMO == 10
MAX_HEALTH == 100
NULL == -1       \* null of sessionStartedAt / sessionEndedAt

GameStatus == {"MENU", "PLAYING", "PAUSED", "GAMEOVER"}
DifficultyLevel == {"CASUAL", "TACTICAL", "INSANE"}

Times == {1, 2}          \* Date.now() readings
SeqTimes == {1}          \* the reading the reducer-sequence specification uses
Amounts == {60, 100}     \* damage amounts: below, above and equal to the health left
Points == {500}
Waves == {1, 2}

Max(a, b) == IF a >= b THEN a ELSE b

createBaseStats ==
    [shotsFired |-> 0, shotsHit |-> 0, enemiesDefeated |-> 0, highestWave |-> 1,
     currentStreak |-> 0, bestStreak |-> 0,
     sessionStartedAt |-> NULL, sessionEndedAt |-> NULL]

createInitialState(difficulty) ==
    [ammo |-> BASE_AMMO, maxAmmo |-> BASE_AMMO, score |-> 0, health |-> MAX_HEALTH,
     status |-> "MENU", isReloading |-> FALSE, lastDamageTime |-> 0,
     isGameOver |-> FALSE, wave |-> 1, difficulty |-> difficulty,
     stats |-> createBaseStats]

(***************************************************************************)
(* The GameAction union.                                                   *)
(***************************************************************************)
StartMatchActionsAt(T) ==
    {[type |-> "START_MATCH", difficulty |-> d, startedAt |-> t] :
        d \in DifficultyLevel, t \in T}
ReturnMenuActions == {[type |-> "RETURN_MENU", difficulty |-> d] : d \in DifficultyLevel}
PauseAction == [type |-> "PAUSE_MATCH"]
ResumeAction == [type |-> "RESUME_MATCH"]
ShotActions == {[type |-> "REGISTER_SHOT", didHit |-> h] : h \in BOOLEAN}
ReloadStartAction == [type |-> "RELOAD_START"]
ReloadCompleteAction == [type |-> "RELOAD_COMPLETE"]
DamageActionsAt(T) ==
    {[type |-> "TAKE_DAMAGE", amount |-> n, at |-> t] : n \in Amounts, t \in T}
EnemyDefeatedActions == {[type |-> "ENEMY_DEFEATED", points |-> p] : p \in Points}
SetWaveActionsAt(T) ==
    {[type |-> "SET_WAVE", wave |-> w, at |-> t] : w \in Waves, t \in T}

GameAction ==
    StartMatchActionsAt(Times) \cup ReturnMenuActions \cup {PauseAction, ResumeAction}
    \cup ShotActions \cup {ReloadStartAction, ReloadCompleteAction}
    \cup DamageActionsAt(Times) \cup EnemyDefeatedActions \cup SetWaveActionsAt(Times)

NoAction == [type |-> "NONE"]

(***************************************************************************)
(* gameReducer, case by case.                                              *)
(***************************************************************************)
ReduceStartMatch(state, action) ==
    [createInitialState(action.difficulty) EXCEPT
        !.status = "PLAYING",
        !.difficulty = action.difficulty,
        !.stats = [createBaseStats EXCEPT !.sessionStartedAt = action.startedAt]]

ReduceReturnMenu(state, action) == createInitialState(action.difficulty)

ReducePauseMatch(state, action) ==
    IF state.status # "PLAYING" THEN state
    ELSE [state EXCEPT !.status = "PAUSED"]

\* mutant: RESUME_MATCH is accepted in every status
ReduceResumeMatch_NoGuard(state, action) == [state EXCEPT !.status = "PLAYING"]

ReduceResumeMatch(state, action) ==
    IF state.status # "PAUSED" THEN state
    ELSE [state EXCEPT !.status = "PLAYING"]

\* mutant: the empty magazine is not checked
ShotRejected_NoAmmoCheck(state) == state.status # "PLAYING" \/ state.isReloading

\* mutant: a reload in progress is not checked
ShotRejected_IgnoresReload(state) == state.status # "PLAYING" \/ state.ammo <= 0

ShotRejected(state) ==
    state.status # "PLAYING" \/ state.isReloading \/ state.ammo <= 0

\* mutant: a miss leaves the running streak alone
ShotStats_MissKeepsStreak(stats, didHit) ==
    [stats EXCEPT
        !.shotsFired = stats.shotsFired + 1,
        !.shotsHit = stats.shotsHit + (IF didHit THEN 1 ELSE 0),
        !.currentStreak = IF didHit THEN stats.currentStreak + 1 ELSE stats.currentStreak,
        !.bestStreak = IF didHit THEN Max(stats.bestStreak, stats.currentStreak + 1)
                       ELSE stats.bestStreak]

\* mutant: the best streak is taken from the streak before the hit
ShotStats_BestFromOldStreak(stats, didHit) ==
    [stats EXCEPT
        !.shotsFired = stats.shotsFired + 1,
        !.shotsHit = stats.shotsHit + (IF didHit THEN 1 ELSE 0),
        !.currentStreak = IF didHit THEN stats.currentStreak + 1 ELSE 0,
        !.bestStreak = IF didHit THEN Max(stats.bestStreak, stats.currentStreak)
                       ELSE stats.bestStreak]

ShotStats(stats, didHit) ==
    [stats EXCEPT
        !.shotsFired = stats.shotsFired + 1,
        !.shotsHit = stats.shotsHit + (IF didHit THEN 1 ELSE 0),
        !.currentStreak = IF didHit THEN stats.currentStreak + 1 ELSE 0,
        !.bestStreak = IF didHit THEN Max(stats.bestStreak, stats.currentStreak + 1)
                       ELSE stats.bestStreak]

ReduceRegisterShot(state, action) ==
    IF ShotRejected(state) THEN state
    ELSE [state EXCEPT
            !.ammo = state.ammo - 1,
            !.stats = ShotStats(state.stats, action.didHit)]

\* mutant: a full magazine is not checked
ReloadStartRejected_NoFullCheck(state) ==
    state.isReloading \/ state.status # "PLAYING"

ReloadStartRejected(state) ==
    state.isReloading \/ state.ammo = state.maxAmmo \/ state.status # "PLAYING"

ReduceReloadStart(state, action) ==
    IF ReloadStartRejected(state) THEN state
    ELSE [state EXCEPT !.isReloading = TRUE]

\* mutant: RELOAD_COMPLETE is applied whether or not a reload is running
ReduceReloadComplete_NoGuard(state, action) ==
    [state EXCEPT !.isReloading = FALSE, !.ammo = state.maxAmmo]

ReduceReloadComplete(state, action) ==
    IF ~state.isReloading THEN state
    ELSE [state EXCEPT !.isReloading = FALSE, !.ammo = state.maxAmmo]

\* mutant: the health left is not clamped at 0
DamagedHealth_NoClamp(health, amount) == health - amount

DamagedHealth(health, amount) == Max(0, health - amount)

\* mutant: an exactly lethal hit does not count as a defeat
Defeated_Strict(newHealth) == newHealth < 0

Defeated(newHealth) == newHealth <= 0

ReduceTakeDamage(state, action) ==
    IF state.status # "PLAYING" \/ state.health <= 0 THEN state
    ELSE LET newHealth == DamagedHealth(state.health, action.amount)
             defeated == Defeated(newHealth)
         IN  [state EXCEPT
                !.health = newHealth,
                !.lastDamageTime = action.at,
                !.status = IF defeated THEN "GAMEOVER" ELSE state.status,
                !.isGameOver = defeated,
                !.stats = IF defeated
                          THEN [state.stats EXCEPT !.sessionEndedAt = action.at]
                          ELSE state.stats]

ReduceEnemyDefeated(state, action) ==
    IF state.status # "PLAYING" THEN state
    ELSE [state EXCEPT
            !.score = state.score + action.points,
            !.stats = [state.stats EXCEPT
                !.enemiesDefeated = state.stats.enemiesDefeated + 1]]

\* mutant: highestWave follows the wave
ReduceSetWave_NoMax(state, action) ==
    IF state.status = "MENU" THEN state
    ELSE [state EXCEPT !.wave = action.wave, !.stats.highestWave = action.wave]

ReduceSetWave(state, action) ==
    IF state.status = "MENU" THEN state
    ELSE [state EXCEPT
            !.wave = action.wave,
            !.stats = [state.stats EXCEPT
                !.highestWave = Max(action.wave, state.stats.highestWave),
                !.sessionEndedAt =
                    IF state.status = "GAMEOVER" THEN action.at
                    ELSE state.stats.sessionEndedAt]]

gameReducer(state, action) ==
    CASE action.type = "START_MATCH" -> ReduceStartMatch(state, action)
      [] action.type = "RETURN_MENU" -> ReduceReturnMenu(state, action)
      [] action.type = "PAUSE_MATCH" -> ReducePauseMatch(state, action)
      [] action.type = "RESUME_MATCH" -> ReduceResumeMatch(state, action)
      [] action.type = "REGISTER_SHOT" -> ReduceRegisterShot(state, action)
      [] action.type = "RELOAD_START" -> ReduceReloadStart(state, action)
      [] action.type = "RELOAD_COMPLETE" -> ReduceReloadComplete(state, action)
      [] action.type = "TAKE_DAMAGE" -> ReduceTakeDamage(state, action)
      [] action.type = "ENEMY_DEFEATED" -> ReduceEnemyDefeated(state, action)
      [] action.type = "SET_WAVE" -> ReduceSetWave(state, action)
      [] OTHER -> state

(***************************************************************************)
(* HandTracker: landmarks are points in hundredths of the normalized       *)
(* camera space; a hand gives the landmarks the classifiers read.          *)
(***************************************************************************)
MovementGesture == {"STOP", "FORWARD", "BACKWARD", "LEFT", "RIGHT"}
CombatGesture == {"IDLE", "AIM", "IRON_SIGHT", "FIRE", "RELOAD"}

WRIST == 0
THUMB_TIP == 4
INDEX_BASE == 5
INDEX_TIP == 8
MIDDLE_TIP == 12
RING_TIP == 16
PINKY_TIP == 20
LandmarkIdx == {WRIST, THUMB_TIP, INDEX_BASE, INDEX_TIP, MIDDLE_TIP, RING_TIP, PINKY_TIP}
FingerTips == {INDEX_TIP, MIDDLE_TIP, RING_TIP, PINKY_TIP}

\* getDistance squared, in 1/10000: Math.sqrt(d2) < t  iff  d2 < t * t
getDistance2(p1, p2) == (p1.x - p2.x) * (p1.x - p2.x) + (p1.y - p2.y) * (p1.y - p2.y)

Sq(t) == t * t

\* mutant: the horizontal tests come before the vertical ones
detectMovement_HorizontalFirst(landmarks) ==
    LET wrist == landmarks[WRIST]
        isFist == \A idx \in FingerTips :
                    getDistance2(landmarks[idx], landmarks[WRIST]) < Sq(15)
    IN  IF isFist THEN "STOP"
        ELSE IF wrist.x < 25 - 8 THEN "RIGHT"
        ELSE IF wrist.x > 25 + 8 THEN "LEFT"
        ELSE IF wrist.y < 50 - 8 THEN "FORWARD"
        ELSE IF wrist.y > 50 + 8 THEN "BACKWARD"
        ELSE "STOP"

detectMovement(landmarks) ==
    LET wrist == landmarks[WRIST]
        isFist == \A idx \in FingerTips :
                    getDistance2(landmarks[idx], landmarks[WRIST]) < Sq(15)
        centerX == 25
        centerY == 50
        threshold == 8
    IN  IF isFist THEN "STOP"
        ELSE IF wrist.y < centerY - threshold THEN "FORWARD"
        ELSE IF wrist.y > centerY + threshold THEN "BACKWARD"
        ELSE IF wrist.x < centerX - threshold THEN "RIGHT"
        ELSE IF wrist.x > centerX + threshold THEN "LEFT"
        ELSE "STOP"

\* mutant: inside the gun pose the middle finger is tested before the curl
detectCombat_IronSightFirst(landmarks) ==
    LET dist2(idx) == getDistance2(landmarks[idx], landmarks[WRIST])
        gunPose == /\ dist2(INDEX_TIP) > Sq(30)
                   /\ landmarks[THUMB_TIP].y < landmarks[INDEX_BASE].y
                   /\ \A idx \in {RING_TIP, PINKY_TIP} : dist2(idx) < Sq(20)
    IN  IF \A idx \in FingerTips : dist2(idx) > Sq(30) THEN "RELOAD"
        ELSE IF gunPose
             THEN IF dist2(MIDDLE_TIP) > Sq(30) THEN "IRON_SIGHT"
                  ELSE IF getDistance2(landmarks[INDEX_TIP], landmarks[INDEX_BASE]) < Sq(12)
                       THEN "FIRE"
                  ELSE "AIM"
        ELSE "IDLE"

detectCombat(landmarks) ==
    LET thumbTip == landmarks[THUMB_TIP]
        indexTip == landmarks[INDEX_TIP]
        indexBase == landmarks[INDEX_BASE]
        middleTip == landmarks[MIDDLE_TIP]
        indexExtended == getDistance2(indexTip, landmarks[WRIST]) > Sq(30)
        middleExtended == getDistance2(middleTip, landmarks[WRIST]) > Sq(30)
        thumbUp == thumbTip.y < indexBase.y
        othersCurled == \A idx \in {RING_TIP, PINKY_TIP} :
                            getDistance2(landmarks[idx], landmarks[WRIST]) < Sq(20)
        isFullHand == \A idx \in FingerTips :
                            getDistance2(landmarks[idx], landmarks[WRIST]) > Sq(30)
    IN  IF isFullHand THEN "RELOAD"
        ELSE IF indexExtended /\ thumbUp /\ othersCurled
             THEN IF getDistance2(indexTip, indexBase) < Sq(12) THEN "FIRE"
                  ELSE IF middleExtended THEN "IRON_SIGHT"
                  ELSE "AIM"
        ELSE "IDLE"

Pt(px, py) == [x |-> px, y |-> py]

\* a hand at wrist w whose landmarks are at the given offsets from the wrist
HandAt(w, thumb, ibase, itip, mtip, rtip, ptip) ==
    (WRIST :> w) @@ (THUMB_TIP :> Pt(w.x + thumb.x, w.y + thumb.y))
    @@ (INDEX_BASE :> Pt(w.x + ibase.x, w.y + ibase.y))
    @@ (INDEX_TIP :> Pt(w.x + itip.x, w.y + itip.y))
    @@ (MIDDLE_TIP :> Pt(w.x + mtip.x, w.y + mtip.y))
    @@ (RING_TIP :> Pt(w.x + rtip.x, w.y + rtip.y))
    @@ (PINKY_TIP :> Pt(w.x + ptip.x, w.y + ptip.y))

\* relaxed hand: fingers half extended (no fist, not fully open)
RelaxedHandAt(w) ==
    HandAt(w, Pt(-8, -8), Pt(-3, -12), Pt(-3, -25), Pt(0, -26), Pt(3, -24), Pt(6, -20))
\* gun pose: index extended, thumb above the index base, ring and pinky curled
GunHandAt(w) ==
    HandAt(w, Pt(-8, -20), Pt(-3, -12), Pt(-3, -32), Pt(0, -14), Pt(3, -12), Pt(6, -10))
\* open hand: all four finger tips beyond the open-hand distance
OpenHandAt(w) ==
    HandAt(w, Pt(-12, -15), Pt(-3, -12), Pt(-3, -33), Pt(0, -35), Pt(3, -33), Pt(8, -31))

\* the hands the camera frames of the model show
SampleHands ==
    {RelaxedHandAt(Pt(25, 30)),   \* left of the midpoint, above the centre
     RelaxedHandAt(Pt(25, 50)),   \* left of the midpoint, inside the deadzone
     GunHandAt(Pt(75, 60)),       \* right of the midpoint, gun pose
     OpenHandAt(Pt(75, 60))}      \* right of the midpoint, open hand

\* results.multiHandLandmarks: up to maxNumHands = 2 hands, in detection order
Frames ==
    {<<>>} \cup {<<h>> : h \in SampleHands}
    \cup {<<h1, h2>> : h1 \in SampleHands, h2 \in SampleHands}

\* the HandState of a frame without hands: the literal onResults starts from.
\* App imports DEFAULT_HAND_STATE from config/gameConfig, which is not among
\* the sources; it is taken to be this neutral state.
DEFAULT_HAND_STATE ==
    [movement |-> "STOP", combat |-> "IDLE",
     leftHandPresent |-> FALSE, rightHandPresent |-> FALSE]

NullState == [null |-> TRUE]

\* mutant: a wrist on the midpoint counts as left
assignHand_MidpointLeft(newState, landmarks) ==
    IF landmarks[WRIST].x <= 50
    THEN [newState EXCEPT !.leftHandPresent = TRUE,
                          !.movement = detectMovement(landmarks)]
    ELSE [newState EXCEPT !.rightHandPresent = TRUE,
                          !.combat = detectCombat(landmarks)]

\* one iteration of the forEach over the detected hands
assignHand(newState, landmarks) ==
    IF landmarks[WRIST].x < 50
    THEN [newState EXCEPT !.leftHandPresent = TRUE,
                          !.movement = detectMovement(landmarks)]
    ELSE [newState EXCEPT !.rightHandPresent = TRUE,
                          !.combat = detectCombat(landmarks)]

RECURSIVE classifyFrom(_, _, _)
classifyFrom(newState, hands, i) ==
    IF i > Len(hands) THEN newState
    ELSE classifyFrom(assignHand(newState, hands[i]), hands, i + 1)

\* newState of onResults for a frame
classifyFrame(hands) == classifyFrom(DEFAULT_HAND_STATE, hands, 1)

\* JSON.stringify of lastStateRef.current / newState: the fields in the order
\* the object literal of onResults sets them, or null
JSONstringify(v) ==
    IF v = NullState THEN <<"null">>
    ELSE <<"movement", v.movement, "combat", v.combat,
           "leftHandPresent", v.leftHandPresent,
           "rightHandPresent", v.rightHandPresent>>

\* mutant: the comparison looks at the gestures only
shouldPropagate_GesturesOnly(last, newState) ==
    last = NullState \/ last.movement # newState.movement \/ last.combat # newState.combat

shouldPropagate(last, newState) == JSONstringify(last) # JSONstringify(newState)

\* initCamera has called getUserMedia, which is pending: no stream, no
\* srcObject, setCameraActive not called, onError not called
CameraPending ==
    [getUserMedia |-> "pending", tracks |-> "none", loadedmetadata |-> "none",
     cameraActive |-> FALSE, onError |-> FALSE]

\* processFrame has not been called: no request in flight, no result delivered
LoopIdle == [pc |-> "idle", inFlight |-> 0, delivered |-> 0]

\* the CinematicGenerator as it mounts: the useState and useRef initial values
GeneratorMounted ==
    [mounted |-> TRUE, selectedImage |-> FALSE, aspectRatio |-> "16:9",
     status |-> "", error |-> "", isGenerating |-> FALSE,
     generatedVideoUrl |-> NULL, requestAbortRef |-> NULL, requests |-> <<>>]

\* the fs calls succeed and writeQueue is Promise.resolve(); callable is
\* history: the write calls not yet made when the file system recovered
NoFault == [fs |-> "works", writeQueue |-> "resolved", callable |-> {}]

SideIdle ==
    /\ generator = GeneratorMounted
    /\ fault = NoFault
    /\ returned = [kind |-> "none"]

TrackerIdle ==
    /\ SideIdle
    /\ lastStateRef = NullState
    /\ canvasRef = TRUE
    /\ camera = CameraPending
    /\ loop = LoopIdle
    /\ frameLog = <<>>

OverlayIdle ==
    /\ pendingTimers = 0
    /\ isCinematicOpen = FALSE
    /\ footstepIntervals = 0
    /\ stepCycleRef = 0

AppIdle ==
    /\ selectedDifficulty = "TACTICAL"
    /\ handState = DEFAULT_HAND_STATE
    /\ reloadTimeoutRef = FALSE
    /\ dispatched = <<>>
    /\ timerStale = FALSE
    /\ OverlayIdle

defaultState ==
    [users |-> <<>>, matches |-> <<>>, calibrations |-> <<>>,
     metrics |-> [apiRequests |-> 0, authFailures |-> 0, matchesSubmitted |-> 0]]

\* the backend before any request
\* no write under way, no cinematic service, the clock at day 0
ServerIdle ==
    /\ disk = <<>>
    /\ writes = <<>>
    /\ writeQueue = <<>>
    /\ cinematicService = FALSE
    /\ clock = 0

BackendIdle ==
    /\ store = defaultState
    /\ calls = <<>>
    /\ reply = <<>>
    /\ ServerIdle

\* the classifier, the analytics functions and the backend before any call
LibIdle ==
    /\ BackendIdle
    /\ inLandmarks = <<>>
    /\ gesture = "NONE"
    /\ history = <<>>
    /\ lastAppend = <<>>
    /\ insights = <<>>

\* what the frame shows of the movement hand (a hand left of the midpoint)
MovementSeen(hands) ==
    IF \E i \in 1..Len(hands) : hands[i][WRIST].x < 50
    THEN classifyFrame(hands).movement
    ELSE "MISSING"

\* onResults for one frame of the camera (a frame that arrives once the canvas
\* is gone returns at once and changes nothing)
OnResults ==
    /\ Len(frameLog) < MaxFrames
    /\ canvasRef
    /\ \E hands \in Frames :
        LET newState == classifyFrame(hands)
            propagate == shouldPropagate(lastStateRef, newState)
        IN  /\ lastStateRef' = IF propagate THEN newState ELSE lastStateRef
            /\ frameLog' = Append(frameLog,
                    [seen |-> MovementSeen(hands), newState |-> newState,
                     onUpdate |-> propagate])
    /\ UNCHANGED <<mountVars, reducerVars, appVars, libVars>>

\* the component unmounts: canvasRef.current becomes null
Unmount ==
    /\ canvasRef
    /\ canvasRef' = FALSE
    /\ UNCHANGED <<camera, loop, sideVars, lastStateRef, frameLog, reducerVars, appVars, libVars>>

InitTracker ==
    /\ gs = createInitialState("TACTICAL")
    /\ lastAction = NoAction
    /\ pc = "tracker"
    /\ inState = createInitialState("TACTICAL")
    /\ hitRun = 0
    /\ TrackerIdle
    /\ AppIdle
    /\ LibIdle

NextTracker == OnResults \/ Unmount

SpecTracker == InitTracker /\ [][NextTracker]_vars

(***************************************************************************)
(* Properties of the HandTracker over sequences of frames (SpecTracker).   *)
(***************************************************************************)
SameHandState(a, b) ==
    /\ a.movement = b.movement
    /\ a.combat = b.combat
    /\ a.leftHandPresent = b.leftHandPresent
    /\ a.rightHandPresent = b.rightHandPresent

\* the frames before frame i on which onUpdate was called
PropagatedBefore(i) == {j \in 1..(i - 1) : frameLog[j].onUpdate}

\* the HandState propagated last before frame i, NullState when there is none
LastPropagated(i) ==
    IF PropagatedBefore(i) = {} THEN NullState
    ELSE frameLog[CHOOSE j \in PropagatedBefore(i) :
                    \A k \in PropagatedBefore(i) : k <= j].newState

\* C9: onUpdate is called exactly on the frames whose classification differs
\* in some field from the HandState propagated last (the first frame always
\* propagates), so never with a HandState equal to the last propagated one.
C9_PropagatesExactlyOnChange ==
    \A i \in 1..Len(frameLog) :
        frameLog[i].onUpdate <=>
            (\/ LastPropagated(i) = NullState
             \/ ~SameHandState(LastPropagated(i), frameLog[i].newState))

\* a first frame, an unchanged frame that is held back, and a frame that
\* differs only in leftHandPresent
C9_Witness ==
    /\ Len(frameLog) = 3
    /\ frameLog[1].onUpdate
    /\ ~frameLog[2].onUpdate
    /\ frameLog[3].onUpdate
    /\ frameLog[3].newState.movement = frameLog[2].newState.movement
    /\ frameLog[3].newState.combat = frameLog[2].newState.combat

\* C10: when the movement hand is FORWARD, missing for exactly one frame and
\* FORWARD again, no HandState with movement = STOP is delivered to onUpdate.
C10_NoStopOnSingleFrameOcclusion ==
    \A i \in 1..(Len(frameLog) - 2) :
        (/\ frameLog[i].seen = "FORWARD"
         /\ frameLog[i + 1].seen = "MISSING"
         /\ frameLog[i + 2].seen = "FORWARD") =>
            \A j \in {i + 1, i + 2} :
                ~(frameLog[j].onUpdate /\ frameLog[j].newState.movement = "STOP")

(***************************************************************************)
(* dispatch: React applies the reducer to the current state.               *)
(***************************************************************************)
dispatch(action) == gs' = gameReducer(gs, action)

\* REGISTER_SHOT's precondition in the action table
ShotAccepted(state) == state.status = "PLAYING" /\ ~state.isReloading /\ state.ammo > 0

(***************************************************************************)
(* SpecReducer: every sequence of reducer actions from the initial state.  *)
(***************************************************************************)
InitReducer ==
    /\ gs \in {createInitialState(d) : d \in DifficultyLevel}
    /\ lastAction = NoAction
    /\ pc = "seq"
    /\ inState = createInitialState("TACTICAL")
    /\ hitRun = 0
    /\ TrackerIdle
    /\ AppIdle
    /\ LibIdle

DispatchStartMatch ==
    /\ \E a \in StartMatchActionsAt(SeqTimes) : dispatch(a)
    /\ hitRun' = 0
    /\ UNCHANGED <<lastAction, pc, inState, trackerVars, appVars, libVars>>

DispatchReturnMenu ==
    /\ \E a \in ReturnMenuActions : dispatch(a)
    /\ hitRun' = 0
    /\ UNCHANGED <<lastAction, pc, inState, trackerVars, appVars, libVars>>

DispatchPauseMatch ==
    /\ dispatch(PauseAction)
    /\ UNCHANGED <<lastAction, pc, inState, hitRun, trackerVars, appVars, libVars>>

DispatchResumeMatch ==
    /\ dispatch(ResumeAction)
    /\ UNCHANGED <<lastAction, pc, inState, hitRun, trackerVars, appVars, libVars>>

DispatchRegisterShot ==
    /\ gs.stats.shotsFired < MaxShots
    /\ \E a \in ShotActions :
        /\ ~a.didHit => gs.stats.shotsFired - gs.stats.shotsHit < MaxMisses
        /\ dispatch(a)
        /\ hitRun' = IF ~ShotAccepted(gs) THEN hitRun
                     ELSE IF a.didHit THEN hitRun + 1 ELSE 0
    /\ UNCHANGED <<lastAction, pc, inState, trackerVars, appVars, libVars>>

DispatchReloadStart ==
    /\ dispatch(ReloadStartAction)
    /\ UNCHANGED <<lastAction, pc, inState, hitRun, trackerVars, appVars, libVars>>

DispatchReloadComplete ==
    /\ dispatch(ReloadCompleteAction)
    /\ UNCHANGED <<lastAction, pc, inState, hitRun, trackerVars, appVars, libVars>>

DispatchTakeDamage ==
    /\ \E a \in DamageActionsAt(SeqTimes) : dispatch(a)
    /\ UNCHANGED <<lastAction, pc, inState, hitRun, trackerVars, appVars, libVars>>

DispatchEnemyDefeated ==
    /\ gs.stats.enemiesDefeated < MaxKills
    /\ \E a \in EnemyDefeatedActions : dispatch(a)
    /\ UNCHANGED <<lastAction, pc, inState, hitRun, trackerVars, appVars, libVars>>

DispatchSetWave ==
    /\ \E a \in SetWaveActionsAt(SeqTimes) : dispatch(a)
    /\ UNCHANGED <<lastAction, pc, inState, hitRun, trackerVars, appVars, libVars>>

NextReducer ==
    \/ DispatchStartMatch
    \/ DispatchReturnMenu
    \/ DispatchPauseMatch
    \/ DispatchResumeMatch
    \/ DispatchRegisterShot
    \/ DispatchReloadStart
    \/ DispatchReloadComplete
    \/ DispatchTakeDamage
    \/ DispatchEnemyDefeated
    \/ DispatchSetWave

SpecReducer == InitReducer /\ [][NextReducer]_vars

(***************************************************************************)
(* Properties of the reducer over sequences of actions (SpecReducer).      *)
(***************************************************************************)

\* C2: in every state reachable by reducer actions, 0 <= ammo <= maxAmmo and
\* 0 <= health <= MAX_HEALTH.
C2_AmmoHealthInRange ==
    /\ 0 <= gs.ammo /\ gs.ammo <= gs.maxAmmo
    /\ 0 <= gs.health /\ gs.health <= MAX_HEALTH

\* the magazine was emptied and the player then died of a hit larger than
\* the health left
C2_Witness ==
    /\ gs.ammo = 0 /\ gs.stats.shotsFired = BASE_AMMO
    /\ gs.health = 0 /\ gs.lastDamageTime # 0

\* C3: in every reachable state, health = 0 implies status = GAMEOVER.
C3_DeadImpliesGameOver == gs.health = 0 => gs.status = "GAMEOVER"

\* a dead player on whom a later SET_WAVE has acted
C3_Witness == gs.health = 0 /\ gs.status = "GAMEOVER" /\ gs.wave = 2

ReloadCompleteStep == gs' = gameReducer(gs, ReloadCompleteAction)

ResetStep ==
    \E a \in StartMatchActionsAt(SeqTimes) \cup ReturnMenuActions :
        gs' = gameReducer(gs, a)

\* C4 as stated: while isReloading, only RELOAD_COMPLETE changes ammo (not even
\* START_MATCH or RETURN_MENU).
C4_OnlyReloadCompleteChangesAmmo ==
    [][(gs.isReloading /\ gs'.ammo # gs.ammo) => ReloadCompleteStep]_vars

\* C4 amended: while isReloading, ammo changes only by RELOAD_COMPLETE or by a
\* reset (START_MATCH, RETURN_MENU), and a reset ends the reload.
C4_AmmoFrozenWhileReloading ==
    [][(gs.isReloading /\ gs'.ammo # gs.ammo) =>
        (ReloadCompleteStep \/ (ResetStep /\ ~gs'.isReloading))]_vars

\* a reload in progress on a partly used magazine after the match has ended
C4_Witness == gs.isReloading /\ gs.ammo < gs.maxAmmo /\ gs.status = "GAMEOVER"

HitStep ==
    ShotAccepted(gs) /\ gs' = gameReducer(gs, [type |-> "REGISTER_SHOT", didHit |-> TRUE])

MissStep ==
    ShotAccepted(gs) /\ gs' = gameReducer(gs, [type |-> "REGISTER_SHOT", didHit |-> FALSE])

\* C6: N accepted hits from streak 0 give currentStreak = N and bestStreak >= N,
\* each hit adding one to shotsHit and taking one ammo; an accepted miss sets
\* currentStreak to 0, leaves bestStreak and shotsHit alone, takes one ammo and
\* adds one to shotsFired.
C6_StreakCountsHits ==
    /\ [](gs.stats.currentStreak = hitRun /\ gs.stats.bestStreak >= hitRun)
    /\ [][HitStep =>
            /\ gs'.stats.currentStreak = gs.stats.currentStreak + 1
            /\ gs'.stats.shotsHit = gs.stats.shotsHit + 1
            /\ gs'.stats.shotsFired = gs.stats.shotsFired + 1
            /\ gs'.ammo = gs.ammo - 1]_vars
    /\ [][MissStep =>
            /\ gs'.stats.currentStreak = 0
            /\ gs'.stats.bestStreak = gs.stats.bestStreak
            /\ gs'.stats.shotsHit = gs.stats.shotsHit
            /\ gs'.stats.shotsFired = gs.stats.shotsFired + 1
            /\ gs'.ammo = gs.ammo - 1]_vars

\* nine hits on a fresh magazine (ammo 1, shotsHit 9, streak 9) and then a miss
C6_Witness ==
    /\ hitRun = 0 /\ gs.ammo = 0
    /\ gs.stats.shotsFired = 10 /\ gs.stats.shotsHit = 9
    /\ gs.stats.currentStreak = 0 /\ gs.stats.bestStreak = 9

\* C7: in every reachable state, stats.bestStreak >= stats.currentStreak.
C7_BestStreakAtLeastCurrent == gs.stats.bestStreak >= gs.stats.currentStreak

\* a streak that was broken and has started again
C7_Witness == gs.stats.bestStreak = 2 /\ gs.stats.currentStreak = 1

(***************************************************************************)
(* SpecReducerFn: gameReducer as a function, applied once to a GameState   *)
(* drawn from a grid of field values (reachable or not) and to any action. *)
(***************************************************************************)
GridStats ==
    [shotsFired : {2}, shotsHit : {1, 2}, enemiesDefeated : {0},
     highestWave : {1, 2}, currentStreak : {0, 1}, bestStreak : {1},
     sessionStartedAt : {NULL, 1}, sessionEndedAt : {NULL, 1}]

GridStates ==
    [ammo : {0, 1, BASE_AMMO}, maxAmmo : {BASE_AMMO}, score : {0},
     health : {0, 40, 60, MAX_HEALTH}, status : GameStatus, isReloading : BOOLEAN,
     lastDamageTime : {0}, isGameOver : BOOLEAN, wave : {1},
     difficulty : {"TACTICAL"}, stats : GridStats]

InitReducerFn ==
    /\ inState \in GridStates
    /\ gs = inState
    /\ lastAction = NoAction
    /\ pc = "in"
    /\ hitRun = 0
    /\ TrackerIdle
    /\ AppIdle
    /\ LibIdle

ApplyReducer ==
    /\ pc = "in"
    /\ \E a \in GameAction :
        /\ gs' = gameReducer(gs, a)
        /\ lastAction' = a
    /\ pc' = "out"
    /\ UNCHANGED <<inState, hitRun, trackerVars, appVars, libVars>>

NextReducerFn == ApplyReducer

SpecReducerFn == InitReducerFn /\ [][NextReducerFn]_vars

\* the unsatisfied preconditions of the action table
PreconditionUnsatisfied(state, action) ==
    CASE action.type = "PAUSE_MATCH" -> state.status # "PLAYING"
      [] action.type = "RESUME_MATCH" -> state.status # "PAUSED"
      [] action.type = "REGISTER_SHOT" ->
            state.status # "PLAYING" \/ state.isReloading \/ state.ammo = 0
      [] action.type = "RELOAD_START" ->
            state.status # "PLAYING" \/ state.isReloading \/ state.ammo = state.maxAmmo
      [] action.type = "RELOAD_COMPLETE" -> ~state.isReloading
      [] action.type = "TAKE_DAMAGE" -> state.status # "PLAYING" \/ state.health = 0
      [] action.type = "ENEMY_DEFEATED" -> state.status # "PLAYING"
      [] action.type = "SET_WAVE" -> state.status = "MENU"
      [] OTHER -> FALSE

\* C1: for every GameState and every action whose precondition in the action
\* table is not satisfied, gameReducer returns a state equal to its input in
\* every field.
C1_IllegalActionIsNoOp ==
    (pc = "out" /\ PreconditionUnsatisfied(inState, lastAction)) => gs = inState

\* RELOAD_START on a full magazine while PLAYING and not reloading
C1_Witness ==
    /\ pc = "out" /\ lastAction = ReloadStartAction
    /\ inState.status = "PLAYING" /\ ~inState.isReloading
    /\ inState.ammo = inState.maxAmmo
    /\ gs = inState /\ ~gs.isReloading

\* C5: TAKE_DAMAGE in PLAYING with health > 0: amount >= health gives health 0,
\* status GAMEOVER, isGameOver and sessionEndedAt = the action's timestamp;
\* amount < health keeps PLAYING and takes exactly amount from health.
C5_TakeDamageOutcome ==
    (/\ pc = "out" /\ lastAction.type = "TAKE_DAMAGE"
     /\ inState.status = "PLAYING" /\ inState.health > 0) =>
        IF lastAction.amount >= inState.health
        THEN /\ gs.health = 0
             /\ gs.status = "GAMEOVER"
             /\ gs.isGameOver
             /\ gs.stats.sessionEndedAt = lastAction.at
        ELSE /\ gs.status = "PLAYING"
             /\ gs.health = inState.health - lastAction.amount

\* a hit larger than the health left, at a time other than the stored end
C5_Witness ==
    /\ pc = "out" /\ lastAction.type = "TAKE_DAMAGE"
    /\ inState.status = "PLAYING" /\ inState.health > 0
    /\ lastAction.amount > inState.health
    /\ inState.stats.sessionEndedAt # lastAction.at
    /\ gs.health = 0 /\ gs.status = "GAMEOVER"

(***************************************************************************)
(* Spec: the App component. One action per event handler; a handler's      *)
(* dispatches and state updates are committed in one render, and the       *)
(* reload effect runs after the commit when its dependencies changed.      *)
(***************************************************************************)
\* what one dispatch adds to the history: the action and the status it met
Entry(action, state) == [action |-> action, from |-> state.status]

\* the frames the camera shows in the App specification
AppFrames ==
    {<<>>, <<RelaxedHandAt(Pt(25, 30))>>, <<OpenHandAt(Pt(75, 60))>>,
     <<RelaxedHandAt(Pt(25, 30)), OpenHandAt(Pt(75, 60))>>}

\* the reload effect: it runs when status or the combat gesture changed,
\* and calls handleReload while PLAYING with the RELOAD gesture
reloadEffectCallsHandleReload(gs1, hs1) ==
    /\ (gs1.status # gs.status \/ hs1.combat # handState.combat)
    /\ gs1.status = "PLAYING"
    /\ hs1.combat = "RELOAD"

\* the handler dispatched START_MATCH or RETURN_MENU
ResetDispatched(log1) ==
    \E i \in 1..Len(log1) : log1[i].action.type \in {"START_MATCH", "RETURN_MENU"}

\* mutant: handleReload sets a timer whether or not one is pending
handleReloadReturnsEarly_Never == FALSE

\* handleReload returns at once while a reload timer is pending
handleReloadReturnsEarly == reloadTimeoutRef

\* mutant: the footstep effect returns no cleanup
footstepEffect_NoCleanup(count, status0, movement0, cine0, status1, movement1, cine1) ==
    IF <<status1, movement1, cine1>> = <<status0, movement0, cine0>> THEN count
    ELSE IF status1 # "PLAYING" \/ movement1 = "STOP" \/ cine1 THEN count
    ELSE count + 1

\* the footstep effect: when status, the movement gesture or isCinematicOpen
\* changed, the cleanup of its last run clears the interval that run set, and
\* the new run sets an interval unless it returns early; the result is the
\* number of intervals left active
footstepEffect(count, status0, movement0, cine0, status1, movement1, cine1) ==
    IF <<status1, movement1, cine1>> = <<status0, movement0, cine0>> THEN count
    ELSE LET cleared == IF status0 # "PLAYING" \/ movement0 = "STOP" \/ cine0
                         THEN count ELSE count - 1
         IN  IF status1 # "PLAYING" \/ movement1 = "STOP" \/ cine1 THEN cleared
             ELSE cleared + 1

\* the render after a handler left GameState gs1, HandState hs1 and
\* isCinematicOpen cine1, having dispatched log1: the reload effect (unless
\* handleReload returns early it dispatches RELOAD_START and sets the 1400 ms
\* timer) and the footstep effect
CommitWith(gs1, hs1, cine1, log1) ==
    LET reload == reloadEffectCallsHandleReload(gs1, hs1) /\ ~handleReloadReturnsEarly
    IN  /\ gs' = IF reload THEN gameReducer(gs1, ReloadStartAction) ELSE gs1
        /\ handState' = hs1
        /\ isCinematicOpen' = cine1
        /\ footstepIntervals' =
                footstepEffect(footstepIntervals,
                               gs.status, handState.movement, isCinematicOpen,
                               gs1.status, hs1.movement, cine1)
        /\ pendingTimers' = IF reload THEN pendingTimers + 1 ELSE pendingTimers
        /\ UNCHANGED stepCycleRef
        /\ reloadTimeoutRef' = (reloadTimeoutRef \/ reload)
        /\ dispatched' = IF reload THEN Append(log1, Entry(ReloadStartAction, gs1))
                          ELSE log1
        /\ timerStale' = IF reload THEN FALSE
                          ELSE IF reloadTimeoutRef /\ ResetDispatched(log1) THEN TRUE
                          ELSE timerStale

\* the render after a handler that leaves isCinematicOpen alone
Commit(gs1, hs1, log1) == CommitWith(gs1, hs1, isCinematicOpen, log1)

\* a handler that dispatches one action and leaves HandState alone
Handle(action) ==
    Commit(gameReducer(gs, action), handState, <<Entry(action, gs)>>)

\* mutant: the start button is also offered while paused
StartButtonVisible_AlsoPaused(state) == state.status \in {"MENU", "GAMEOVER", "PAUSED"}

\* "Iniciar missao" of the menu overlay, "Jogar novamente" of the results overlay
StartButtonVisible(state) == state.status \in {"MENU", "GAMEOVER"}

\* "Encerrar sessao" of the paused overlay, "Voltar ao menu" of the results overlay
MenuButtonVisible(state) == state.status \in {"PAUSED", "GAMEOVER"}

InitApp ==
    /\ selectedDifficulty \in DifficultyLevel
    /\ gs = createInitialState(selectedDifficulty)
    /\ handState = DEFAULT_HAND_STATE
    /\ reloadTimeoutRef = FALSE
    /\ dispatched = <<>>
    /\ timerStale = FALSE
    /\ OverlayIdle
    /\ LibIdle
    /\ lastAction = NoAction
    /\ pc = "app"
    /\ inState = createInitialState("TACTICAL")
    /\ hitRun = 0
    /\ TrackerIdle

appFrame == <<lastAction, pc, inState, hitRun, mountVars, frameLog, libVars>>

\* a difficulty card of the menu
SelectDifficulty ==
    /\ gs.status = "MENU"
    /\ \E d \in DifficultyLevel : selectedDifficulty' = d
    /\ dispatched' = <<>>
    /\ UNCHANGED <<gs, handState, reloadTimeoutRef, timerStale, overlayVars,
                   lastStateRef, appFrame>>

startMatch ==
    /\ StartButtonVisible(gs)
    /\ \E t \in SeqTimes :
        Handle([type |-> "START_MATCH", difficulty |-> selectedDifficulty,
                startedAt |-> t])
    /\ UNCHANGED <<selectedDifficulty, lastStateRef, appFrame>>

returnToMenu ==
    /\ MenuButtonVisible(gs)
    /\ LET action == [type |-> "RETURN_MENU", difficulty |-> selectedDifficulty]
       IN  CommitWith(gameReducer(gs, action), DEFAULT_HAND_STATE, FALSE,
                      <<Entry(action, gs)>>)
    /\ UNCHANGED <<selectedDifficulty, lastStateRef, appFrame>>

\* key P or the command bar button while PLAYING
pauseMatch ==
    /\ gs.status = "PLAYING"
    /\ Handle(PauseAction)
    /\ UNCHANGED <<selectedDifficulty, lastStateRef, appFrame>>

\* key P, the command bar button or "Retomar" while PAUSED
resumeMatch ==
    /\ gs.status = "PAUSED"
    /\ Handle(ResumeAction)
    /\ UNCHANGED <<selectedDifficulty, lastStateRef, appFrame>>

\* the rendering layer reports a shot
handleShoot ==
    /\ gs.stats.shotsFired < AppMaxShots
    /\ \E a \in ShotActions :
        /\ ~a.didHit => gs.stats.shotsFired - gs.stats.shotsHit < MaxMisses
        /\ Handle(a)
    /\ UNCHANGED <<selectedDifficulty, lastStateRef, appFrame>>

handleEnemyDefeated ==
    /\ gs.stats.enemiesDefeated < MaxKills
    /\ \E a \in EnemyDefeatedActions : Handle(a)
    /\ UNCHANGED <<selectedDifficulty, lastStateRef, appFrame>>

handleWaveChange ==
    /\ \E a \in SetWaveActionsAt(SeqTimes) : Handle(a)
    /\ UNCHANGED <<selectedDifficulty, lastStateRef, appFrame>>

handleTakeDamage ==
    /\ \E a \in DamageActionsAt(SeqTimes) : Handle(a)
    /\ UNCHANGED <<selectedDifficulty, lastStateRef, appFrame>>

\* the reload timer fires: it dispatches RELOAD_COMPLETE and clears the ref
reloadTimerFires ==
    /\ pendingTimers > 0
    /\ gs' = gameReducer(gs, ReloadCompleteAction)
    /\ reloadTimeoutRef' = FALSE
    /\ pendingTimers' = pendingTimers - 1
    /\ UNCHANGED <<isCinematicOpen, footstepIntervals, stepCycleRef>>
    /\ dispatched' = <<[action |-> ReloadCompleteAction, from |-> gs.status,
                         stale |-> timerStale]>>
    /\ timerStale' = FALSE
    /\ UNCHANGED <<handState, selectedDifficulty, lastStateRef, appFrame>>

\* a camera frame: onResults of the tracker, with onUpdate = setHandState
trackerFrame ==
    /\ canvasRef
    /\ \E hands \in AppFrames :
        LET newState == classifyFrame(hands)
            propagate == shouldPropagate(lastStateRef, newState)
        IN  /\ lastStateRef' = IF propagate THEN newState ELSE lastStateRef
            /\ Commit(gs, IF propagate THEN newState ELSE handState, <<>>)
    /\ UNCHANGED <<selectedDifficulty, appFrame>>

Next ==
    \/ SelectDifficulty
    \/ startMatch
    \/ returnToMenu
    \/ pauseMatch
    \/ resumeMatch
    \/ handleShoot
    \/ handleEnemyDefeated
    \/ handleWaveChange
    \/ handleTakeDamage
    \/ reloadTimerFires
    \/ trackerFrame

Spec == InitApp /\ [][Next]_vars

StatusEdges ==
    {<<"MENU", "PLAYING">>, <<"PLAYING", "PAUSED">>, <<"PAUSED", "PLAYING">>,
     <<"PLAYING", "GAMEOVER">>, <<"PAUSED", "MENU">>, <<"GAMEOVER", "MENU">>,
     <<"GAMEOVER", "PLAYING">>}

\* C8: status changes only along MENU->PLAYING, PLAYING->PAUSED,
\* PAUSED->PLAYING, PLAYING->GAMEOVER, PAUSED->MENU, GAMEOVER->MENU and
\* GAMEOVER->PLAYING, and START_MATCH is dispatched only in MENU or GAMEOVER.
C8_StatusEdges ==
    /\ [][gs'.status # gs.status => <<gs.status, gs'.status>> \in StatusEdges]_vars
    /\ [](\A i \in 1..Len(dispatched) :
            dispatched[i].action.type = "START_MATCH" =>
                dispatched[i].from \in {"MENU", "GAMEOVER"})

\* a fresh session started from the results overlay
C8_Witness ==
    /\ Len(dispatched) >= 1
    /\ dispatched[1].action.type = "START_MATCH"
    /\ dispatched[1].from = "GAMEOVER"
    /\ gs.status = "PLAYING" /\ gs.health = MAX_HEALTH /\ gs.stats.shotsFired = 0

\* the step in which the pending reload timer fires
TimerFiresStep ==
    /\ reloadTimeoutRef /\ ~reloadTimeoutRef'
    /\ Len(dispatched') = 1
    /\ dispatched'[1].action = ReloadCompleteAction

\* C13: the reload timer never fires after the match has ended or after
\* RETURN_MENU: a pending timer is cancelled when status becomes GAMEOVER or
\* MENU, so a reload timer does not change GameState once the match is over.
C13_TimerInertAfterMatchEnd ==
    [][(TimerFiresStep /\ gs.status \in {"GAMEOVER", "MENU"}) => gs' = gs]_vars

\* C14: a RELOAD_COMPLETE dispatched by a timer that was scheduled before the
\* most recent START_MATCH / RETURN_MENU leaves GameState unchanged.
C14_StaleTimerIsNoOp ==
    [][(TimerFiresStep /\ timerStale) => gs' = gs]_vars

\* the timer of an earlier match fired in a later match whose magazine was
\* no longer full
C14_Witness ==
    /\ Len(dispatched) = 1
    /\ dispatched[1].action = ReloadCompleteAction
    /\ dispatched[1].stale
    /\ dispatched[1].from = "PLAYING"
    /\ gs.status = "PLAYING" /\ gs.ammo < gs.maxAmmo

(***************************************************************************)
(* SpecClassify: detectMovement and detectCombat applied once to every     *)
(* landmark set of a grid around the thresholds.                           *)
(***************************************************************************)
WristXs == {16, 17, 25, 33, 34}
WristYs == {41, 42, 50, 58, 59}
ThumbYs == {-25, -12, -5}          \* thumb tip, relative to the wrist
IndexBaseYs == {-22, -12}          \* index base, relative to the wrist
IndexReach == {14, 15, 30, 31, 33, 34}   \* tip-to-wrist distance of the index
MiddleReach == {14, 15, 30, 31}
OuterReach == {14, 15, 19, 20, 31}       \* ring and pinky

\* hands whose finger tips lie straight above the wrist at the given reach
GridHands ==
    {HandAt(Pt(wx, wy), Pt(0, ty), Pt(0, by), Pt(0, -i), Pt(0, -m), Pt(0, -r), Pt(0, -p)) :
        wx \in WristXs, wy \in WristYs, ty \in ThumbYs, by \in IndexBaseYs,
        i \in IndexReach, m \in MiddleReach, r \in OuterReach, p \in OuterReach}

InitClassify ==
    /\ inLandmarks \in GridHands
    /\ gesture = "NONE"
    /\ BackendIdle
    /\ history = <<>>
    /\ lastAppend = <<>>
    /\ insights = <<>>
    /\ gs = createInitialState("TACTICAL")
    /\ lastAction = NoAction
    /\ pc = "in"
    /\ inState = createInitialState("TACTICAL")
    /\ hitRun = 0
    /\ TrackerIdle
    /\ AppIdle

classifyFrame_ == <<inLandmarks, analyticsVars, backendVars, gs, lastAction, inState, hitRun,
                    trackerVars, appVars>>

ApplyDetectMovement ==
    /\ pc = "in"
    /\ gesture' = detectMovement(inLandmarks)
    /\ pc' = "movement"
    /\ UNCHANGED classifyFrame_

ApplyDetectCombat ==
    /\ pc = "in"
    /\ gesture' = detectCombat(inLandmarks)
    /\ pc' = "combat"
    /\ UNCHANGED classifyFrame_

NextClassify == ApplyDetectMovement \/ ApplyDetectCombat

SpecClassify == InitClassify /\ [][NextClassify]_vars

\* tip-to-wrist distance (squared) of a landmark of the classified hand
Reach2(idx) == getDistance2(inLandmarks[idx], inLandmarks[WRIST])

Fist == \A idx \in {8, 12, 16, 20} : Reach2(idx) < 15 * 15

\* C11: detectMovement is the decision list: fist -> STOP whatever the wrist
\* position; else wrist above the centre by more than the deadzone -> FORWARD,
\* below -> BACKWARD, both before any horizontal test; else wrist x below
\* centre minus deadzone -> RIGHT, above centre plus deadzone -> LEFT; inside
\* the deadzone -> STOP.
C11_MovementDecisionList ==
    pc = "movement" =>
        LET x == inLandmarks[0].x
            y == inLandmarks[0].y
        IN  /\ Fist => gesture = "STOP"
            /\ (~Fist /\ 50 - y > 8) => gesture = "FORWARD"
            /\ (~Fist /\ y - 50 > 8) => gesture = "BACKWARD"
            /\ (~Fist /\ 50 - y <= 8 /\ y - 50 <= 8 /\ 25 - x > 8) => gesture = "RIGHT"
            /\ (~Fist /\ 50 - y <= 8 /\ y - 50 <= 8 /\ x - 25 > 8) => gesture = "LEFT"
            /\ (50 - y <= 8 /\ y - 50 <= 8 /\ 25 - x <= 8 /\ x - 25 <= 8)
                    => gesture = "STOP"

\* an open (no fist) hand that deviates both vertically and horizontally
\* was classified by its vertical deviation
C11_Witness ==
    /\ pc = "movement" /\ ~Fist
    /\ inLandmarks[0].y < 42 /\ inLandmarks[0].x > 33
    /\ gesture = "FORWARD"

OpenHand == \A idx \in {8, 12, 16, 20} : Reach2(idx) > 30 * 30

GunPose ==
    /\ Reach2(8) > 30 * 30
    /\ inLandmarks[4].y < inLandmarks[5].y
    /\ Reach2(16) < 20 * 20 /\ Reach2(20) < 20 * 20

IndexCurled == getDistance2(inLandmarks[8], inLandmarks[5]) < 12 * 12

\* C12: detectCombat is the decision list: open hand -> RELOAD before anything
\* else; else in a gun pose a curled index -> FIRE (even with the middle
\* finger extended), else middle finger extended -> IRON_SIGHT, else AIM;
\* anything else -> IDLE; the result is one CombatGesture.
C12_CombatDecisionList ==
    pc = "combat" =>
        /\ gesture \in CombatGesture
        /\ OpenHand => gesture = "RELOAD"
        /\ (~OpenHand /\ GunPose /\ IndexCurled) => gesture = "FIRE"
        /\ (~OpenHand /\ GunPose /\ ~IndexCurled /\ Reach2(12) > 30 * 30)
                => gesture = "IRON_SIGHT"
        /\ (~OpenHand /\ GunPose /\ ~IndexCurled /\ ~(Reach2(12) > 30 * 30))
                => gesture = "AIM"
        /\ (~OpenHand /\ ~GunPose) => gesture = "IDLE"

\* a gun pose with a curled index and the middle finger extended fired
C12_Witness ==
    /\ pc = "combat" /\ GunPose /\ IndexCurled /\ Reach2(12) > 30 * 30
    /\ gesture = "FIRE"

(***************************************************************************)
(* Session analytics (domain/session-analytics.ts).                        *)
(* accuracy and averageAccuracy are in tenths of a percent (86 is 860), so *)
(* that toFixed(1) is integer rounding.                                    *)
(***************************************************************************)
\* the DifficultyLevel values isDifficultyLevel accepts, lowest tier first
DifficultyTiers == <<"EASY", "CASUAL", "TACTICAL", "INSANE">>

Min(a, b) == IF a <= b THEN a ELSE b

\* x / n rounded to the nearest integer, halves upwards: Math.round, and
\* toFixed on a quotient that is exact in binary whenever it is a half
RoundDiv(x, n) == (2 * x + n) \div (2 * n)

SessionSnapshot(id, endedAt, score, accuracy, highestWave, durationMs) ==
    [id |-> id, endedAt |-> endedAt, score |-> score, accuracy |-> accuracy,
     kills |-> 0, highestWave |-> highestWave, durationMs |-> durationMs,
     difficulty |-> "CASUAL"]

\* one step of the stable sort by descending endedAt: x goes behind every
\* element that does not end before it
InsertByEndedAtDesc(sorted, x) ==
    LET keep == {i \in 0..Len(sorted) :
                    \A j \in 1..i : sorted[j].endedAt >= x.endedAt}
        k == CHOOSE i \in keep : \A j \in keep : j <= i
    IN  SubSeq(sorted, 1, k) \o <<x>> \o SubSeq(sorted, k + 1, Len(sorted))

RECURSIVE sortFrom(_, _, _)
sortFrom(sorted, list, i) ==
    IF i > Len(list) THEN sorted
    ELSE sortFrom(InsertByEndedAtDesc(sorted, list[i]), list, i + 1)

\* list.sort((a, b) => b.endedAt - a.endedAt): stable, descending endedAt
sortByEndedAtDesc(list) == sortFrom(<<>>, list, 1)

\* list.slice(0, n) for n >= 0
slice0(list, n) == SubSeq(list, 1, Min(n, Len(list)))

\* mutant: the new snapshot is put in front and the list cut, without sorting
appendSessionHistory_Unsorted(hist, newSnapshot, maxItems) ==
    slice0(<<newSnapshot>> \o hist, maxItems)

\* mutant: the list is cut before it is sorted
appendSessionHistory_SliceFirst(hist, newSnapshot, maxItems) ==
    sortByEndedAtDesc(slice0(<<newSnapshot>> \o hist, maxItems))

appendSessionHistory(hist, newSnapshot, maxItems) ==
    slice0(sortByEndedAtDesc(<<newSnapshot>> \o hist), maxItems)

calculateRecommendedDifficulty(input) ==
    IF input.totalSessions < 3 THEN "CASUAL"
    ELSE IF input.averageAccuracy >= 860 /\ input.bestWave >= 9 THEN "INSANE"
    ELSE IF input.averageAccuracy >= 680 /\ input.bestWave >= 5 THEN "TACTICAL"
    ELSE IF input.averageAccuracy < 420 THEN "EASY"
    ELSE "CASUAL"

RECURSIVE sumFrom(_, _, _)
\* list.reduce((sum, session) => sum + session[field], 0)
sumFrom(list, field, i) ==
    IF i > Len(list) THEN 0 ELSE list[i][field] + sumFrom(list, field, i + 1)

RECURSIVE maxFrom(_, _, _)
\* list.reduce((best, session) => Math.max(best, session[field]), 0)
maxFrom(list, field, i) ==
    IF i > Len(list) THEN 0 ELSE Max(list[i][field], maxFrom(list, field, i + 1))

deriveSessionInsights(hist) ==
    IF Len(hist) = 0
    THEN [totalSessions |-> 0, averageAccuracy |-> 0, averageDurationMs |-> 0,
          bestScore |-> 0, bestWave |-> 0, recentSessions |-> <<>>,
          recommendedDifficulty |-> "CASUAL"]
    ELSE LET recentSessions == slice0(sortByEndedAtDesc(hist), 5)
             totalAccuracy == sumFrom(recentSessions, "accuracy", 1)
             totalDuration == sumFrom(recentSessions, "durationMs", 1)
             bestScore == maxFrom(hist, "score", 1)
             bestWave == maxFrom(hist, "highestWave", 1)
             averageAccuracy == RoundDiv(totalAccuracy, Len(recentSessions))
             averageDurationMs == RoundDiv(totalDuration, Len(recentSessions))
         IN  [totalSessions |-> Len(hist), averageAccuracy |-> averageAccuracy,
              averageDurationMs |-> averageDurationMs, bestScore |-> bestScore,
              bestWave |-> bestWave, recentSessions |-> recentSessions,
              recommendedDifficulty |->
                  calculateRecommendedDifficulty(
                      [totalSessions |-> Len(hist),
                       averageAccuracy |-> averageAccuracy,
                       bestWave |-> bestWave])]

\* all sequences of at most n elements of S
SeqUpTo(S, n) == UNION {[1..k -> S] : k \in 0..n}

libFrame == <<classifyVars, backendVars, gs, lastAction, inState, hitRun, trackerVars, appVars>>

LibInit ==
    /\ BackendIdle
    /\ inLandmarks = <<>>
    /\ gesture = "NONE"
    /\ gs = createInitialState("TACTICAL")
    /\ lastAction = NoAction
    /\ inState = createInitialState("TACTICAL")
    /\ hitRun = 0
    /\ TrackerIdle
    /\ AppIdle

(***************************************************************************)
(* SpecHistory: any sequence of appendSessionHistory calls, starting from  *)
(* a stored history that need not be sorted.                               *)
(***************************************************************************)
HistSnapshots ==
    {SessionSnapshot(id, e, 0, 0, 1, 0) : id \in {1, 2}, e \in {1, 2, 3}}

InitHistory ==
    /\ history \in SeqUpTo(HistSnapshots, 2)
    /\ lastAppend = <<>>
    /\ insights = <<>>
    /\ pc = "history"
    /\ LibInit

AppendSession ==
    /\ pc = "history"
    /\ \E newSnapshot \in HistSnapshots, maxItems \in 0..MaxItems :
        /\ history' = appendSessionHistory(history, newSnapshot, maxItems)
        /\ lastAppend' = [history |-> history, newSnapshot |-> newSnapshot,
                          maxItems |-> maxItems]
    /\ UNCHANGED <<pc, insights, libFrame>>

NextHistory == AppendSession

SpecHistory == InitHistory /\ [][NextHistory]_vars

DescendingEndedAt(list) ==
    \A i \in 1..Len(list) : \A j \in i..Len(list) : list[i].endedAt >= list[j].endedAt

\* C17: appendSessionHistory returns at most maxItems entries, in
\* non-increasing endedAt order, for every history (sorted or not), and so
\* after any sequence of appends.
C17_BoundedAndDescending ==
    lastAppend # <<>> =>
        /\ Len(history) <= lastAppend.maxItems
        /\ DescendingEndedAt(history)

\* an unsorted history was appended to, and the result was cut to maxItems
C17_Witness ==
    /\ lastAppend # <<>>
    /\ ~DescendingEndedAt(lastAppend.history)
    /\ Len(lastAppend.history) + 1 > lastAppend.maxItems
    /\ Len(history) = 2

Count(x, list) == Cardinality({i \in 1..Len(list) : list[i] = x})

\* the entries of sub are entries of list, none more often than in list
SubBag(sub, list) == \A i \in 1..Len(sub) : Count(sub[i], sub) <= Count(sub[i], list)

\* C18: appendSessionHistory neither duplicates nor drops unrelated entries:
\* without truncation the result is a permutation of history plus the new
\* snapshot; with truncation it is the maxItems entries with the largest
\* endedAt; and sorting the result again by descending endedAt changes nothing.
C18_NoDuplicateNoDrop ==
    lastAppend # <<>> =>
        LET all == <<lastAppend.newSnapshot>> \o lastAppend.history
        IN  /\ SubBag(history, all)
            /\ Len(all) <= lastAppend.maxItems => Len(history) = Len(all)
            /\ Len(all) > lastAppend.maxItems =>
                    /\ Len(history) = lastAppend.maxItems
                    /\ \A i \in 1..Len(all) :
                          Count(all[i], history) < Count(all[i], all) =>
                            \A j \in 1..Len(history) :
                                history[j].endedAt >= all[i].endedAt
            /\ sortByEndedAtDesc(history) = history

\* a truncating append that kept the new snapshot and dropped an older entry
C18_Witness ==
    /\ lastAppend # <<>>
    /\ Len(lastAppend.history) = 2 /\ lastAppend.maxItems = 2
    /\ Count(lastAppend.newSnapshot, history) = 1
    /\ \E i \in 1..2 : Count(lastAppend.history[i], history) = 0

(***************************************************************************)
(* SpecInsights: deriveSessionInsights applied once to a history, and      *)
(* calculateRecommendedDifficulty applied once to an input of a grid.      *)
(***************************************************************************)
InsightSnapshots ==
    {SessionSnapshot(1, e, 100, a, w, 1000) :
        e \in {1, 2}, a \in {300, 840, 880, 900, 950}, w \in {4, 10}}

RecommendationInputs ==
    [totalSessions : 0..4,
     averageAccuracy : {0, 419, 420, 679, 680, 859, 860, 1000},
     bestWave : {0, 4, 5, 8, 9, 10}]

InitInsights ==
    /\ \/ /\ pc = "history"
          /\ history \in SeqUpTo(InsightSnapshots, MaxHistory)
          /\ insights = <<>>
       \/ /\ pc = "input"
          /\ history = <<>>
          /\ insights \in RecommendationInputs
    /\ lastAppend = <<>>
    /\ LibInit

ApplyDeriveSessionInsights ==
    /\ pc = "history"
    /\ insights' = deriveSessionInsights(history)
    /\ pc' = "derived"
    /\ UNCHANGED <<history, lastAppend, libFrame>>

ApplyRecommendedDifficulty ==
    /\ pc = "input"
    /\ insights' = [input |-> insights,
                    recommendedDifficulty |-> calculateRecommendedDifficulty(insights)]
    /\ pc' = "recommended"
    /\ UNCHANGED <<history, lastAppend, libFrame>>

NextInsights == ApplyDeriveSessionInsights \/ ApplyRecommendedDifficulty

SpecInsights == InitInsights /\ [][NextInsights]_vars

\* C15: deriveSessionInsights on an empty history returns zero totals, an
\* empty recentSessions list and the lowest difficulty tier as recommendation.
C15_EmptyHistoryInsights ==
    (pc = "derived" /\ history = <<>>) =>
        insights = [totalSessions |-> 0, averageAccuracy |-> 0,
                    averageDurationMs |-> 0, bestScore |-> 0, bestWave |-> 0,
                    recentSessions |-> <<>>,
                    recommendedDifficulty |-> DifficultyTiers[1]]

\* C16: the recommendation is the first matching rule of: fewer than 3
\* sessions -> lowest tier; accuracy >= 86 and wave >= 9 -> highest tier;
\* accuracy >= 68 and wave >= 5 -> middle tier; accuracy < 42 -> lowest tier;
\* otherwise -> low-middle tier.
C16_RecommendationRules ==
    pc = "recommended" =>
        LET in == insights.input
        IN  insights.recommendedDifficulty =
                IF in.totalSessions < 3 THEN DifficultyTiers[1]
                ELSE IF in.averageAccuracy >= 860 /\ in.bestWave >= 9 THEN DifficultyTiers[4]
                ELSE IF in.averageAccuracy >= 680 /\ in.bestWave >= 5 THEN DifficultyTiers[3]
                ELSE IF in.averageAccuracy < 420 THEN DifficultyTiers[1]
                ELSE DifficultyTiers[2]

(***************************************************************************)
(* Backend: the Fastify application, AuthService, StoreRepository and      *)
(* JsonFileStore. A string is a sequence of characters.                    *)
(***************************************************************************)
UserRole == {"PLAYER", "ADMIN"}

AppError(statusCode, code) == [statusCode |-> statusCode, code |-> code]

RECURSIVE trimStart(_)
trimStart(str) ==
    IF str # <<>> /\ Head(str) = " " THEN trimStart(Tail(str)) ELSE str

RECURSIVE trimEnd(_)
trimEnd(str) ==
    IF str # <<>> /\ str[Len(str)] = " " THEN trimEnd(SubSeq(str, 1, Len(str) - 1))
    ELSE str

trim(str) == trimEnd(trimStart(str))

toLowerCase(str) ==
    [i \in 1..Len(str) |->
        CASE str[i] = "A" -> "a" [] str[i] = "B" -> "b" [] OTHER -> str[i]]

normalizeEmail(email) == toLowerCase(trim(email))

\* z.string().email(): an address holds no blank
isEmail(str) == str # <<>> /\ \A i \in 1..Len(str) : str[i] # " "

\* state.users.find(...) ?? null, as the set of matches of the first hit
findUserByEmail(state, email) ==
    LET hits == {i \in 1..Len(state.users) : state.users[i].email = email}
    IN  IF hits = {} THEN {} ELSE {state.users[CHOOSE i \in hits : \A j \in hits : i <= j]}

findUserById(state, userId) ==
    LET hits == {i \in 1..Len(state.users) : state.users[i].id = userId}
    IN  IF hits = {} THEN {} ELSE {state.users[CHOOSE i \in hits : \A j \in hits : i <= j]}

createUser(state, user) == [state EXCEPT !.users = Append(@, user)]

insertMatch(state, match) ==
    [state EXCEPT !.matches = Append(@, match),
                  !.metrics.matchesSubmitted = @ + 1]

\* state.calibrations.find(...) ?? null, as the set of matches of the first hit
getCalibration(state, userId) ==
    LET hits == {i \in 1..Len(state.calibrations) : state.calibrations[i].userId = userId}
    IN  IF hits = {} THEN {}
        ELSE {state.calibrations[CHOOSE i \in hits : \A j \in hits : i <= j]}

\* mutant: every update pushes a new record
upsertCalibration_AlwaysPush(state, userId, calibration) ==
    [state EXCEPT !.calibrations = Append(@, calibration @@ [userId |-> userId])]

\* Object.assign(existing, calibration) on the first record of the user, or
\* a push of {userId, ...calibration}
upsertCalibration(state, userId, calibration) ==
    IF getCalibration(state, userId) # {}
    THEN [state EXCEPT !.calibrations =
            [i \in 1..Len(@) |->
                IF @[i].userId = userId /\ \A j \in 1..(i - 1) : @[j].userId # userId
                THEN calibration @@ @[i]
                ELSE @[i]]]
    ELSE [state EXCEPT !.calibrations = Append(@, calibration @@ [userId |-> userId])]

\* the Authorization header: absent, or a scheme and what follows it
NoHeader == [scheme |-> "NONE"]

\* authorization?.startsWith('Bearer ')
startsWithBearer(header) == header.scheme = "Bearer"

\* request.server.jwt.verify: the signature is ours and the token has not expired
jwtVerify(token) == token.state = "valid"

\* mutant: the bearer token is decoded without being verified
requireAuth_NoVerify(header) ==
    IF ~startsWithBearer(header)
    THEN [error |-> {AppError(401, "UNAUTHORIZED")}, auth |-> {}]
    ELSE [error |-> {}, auth |-> {[sub |-> header.token.sub, role |-> header.token.role]}]

\* the preHandler: the error it throws, or the payload it puts in request.auth
requireAuth(header) ==
    IF ~startsWithBearer(header)
    THEN [error |-> {AppError(401, "UNAUTHORIZED")}, auth |-> {}]
    ELSE IF jwtVerify(header.token)
         THEN [error |-> {}, auth |-> {[sub |-> header.token.sub, role |-> header.token.role]}]
         ELSE [error |-> {AppError(401, "UNAUTHORIZED")}, auth |-> {}]

requireRole(role, header) ==
    LET checked == requireAuth(header)
    IN  IF checked.error # {} THEN checked
        ELSE IF \E a \in checked.auth : a.role # role
             THEN [error |-> {AppError(403, "FORBIDDEN")}, auth |-> checked.auth]
             ELSE checked

ProtectedRoutes ==
    {"GET /auth/me", "POST /matches", "GET /matches/me", "GET /matches/summary",
     "GET /profile/calibration", "PUT /profile/calibration", "GET /admin/metrics"}

preHandler(route, header) ==
    IF route = "GET /admin/metrics" THEN requireRole("ADMIN", header)
    ELSE requireAuth(header)

Sent(statusCode, code, state) == [statusCode |-> statusCode, code |-> code, store |-> state]

\* the route handler for an authenticated request whose body or query passes
\* validation iff inputOk
handler(route, auth, inputOk, state) ==
    CASE route = "GET /auth/me" ->
            IF findUserById(state, auth.sub) = {} THEN Sent(404, "NOT_FOUND", state)
            ELSE Sent(200, "NONE", state)
      [] route = "POST /matches" ->
            IF ~inputOk THEN Sent(422, "VALIDATION_ERROR", state)
            ELSE IF findUserById(state, auth.sub) = {} THEN Sent(404, "NOT_FOUND", state)
            ELSE Sent(201, "NONE", insertMatch(state, [userId |-> auth.sub]))
      [] route \in {"GET /matches/me", "GET /matches/summary"} ->
            IF ~inputOk THEN Sent(422, "VALIDATION_ERROR", state)
            ELSE Sent(200, "NONE", state)
      [] route = "GET /profile/calibration" -> Sent(200, "NONE", state)
      [] route = "PUT /profile/calibration" ->
            IF ~inputOk THEN Sent(422, "VALIDATION_ERROR", state)
            ELSE Sent(200, "NONE",
                      upsertCalibration(state, auth.sub, [smoothingFrames |-> 3]))
      [] OTHER -> Sent(200, "NONE", state)

\* preHandler, handler and setErrorHandler for one request to a protected route
serve(route, header, inputOk, state) ==
    LET checked == preHandler(route, header)
    IN  IF checked.error # {}
        THEN LET e == CHOOSE e \in checked.error : TRUE
             IN  [statusCode |-> e.statusCode, code |-> e.code, store |-> state,
                  handlerRan |-> FALSE]
        ELSE LET auth == CHOOSE a \in checked.auth : TRUE
                 sent == handler(route, auth, inputOk, state)
             IN  [statusCode |-> sent.statusCode, code |-> sent.code,
                  store |-> sent.store, handlerRan |-> TRUE]

(***************************************************************************)
(* SpecRegister: concurrent requests to the register route. A register     *)
(* call is two steps: the e-mail lookup at its start, and createUser once  *)
(* bcrypt.hash has resolved.                                               *)
(* SpecRoutes: requests to the protected routes of a server whose store    *)
(* holds the users registered so far.                                      *)
(***************************************************************************)
RawEmails == {<<"a">>, <<"A">>, <<" ", "a">>, <<"b">>}

UnknownSub == 99   \* subject of a token whose user is not in the store

\* the tokens a client can present: issued to a stored user (still valid or
\* expired), issued to a user the store no longer has, or not signed by us
Tokens(state) ==
    {[sub |-> state.users[i].id, role |-> state.users[i].role, state |-> st] :
        i \in 1..Len(state.users), st \in {"valid", "expired"}}
    \cup {[sub |-> UnknownSub, role |-> "PLAYER", state |-> st] : st \in {"valid", "forged"}}

Headers(state) ==
    {NoHeader, [scheme |-> "Basic"], [scheme |-> "bearer"]}
    \cup {[scheme |-> "Bearer", token |-> t] : t \in Tokens(state)}

\* the store after buildApp, with or without a bootstrap admin
BootStores ==
    {defaultState,
     createUser(defaultState, [id |-> 0, email |-> <<"r">>, role |-> "ADMIN"])}

\* stores in which a player has registered as well
RouteStores ==
    BootStores \cup
    {createUser(st, [id |-> 1, email |-> <<"a">>, role |-> "PLAYER"]) : st \in BootStores}

BackendInit(stores) ==
    /\ store \in stores
    /\ calls = <<>>
    /\ reply = <<>>
    /\ ServerIdle
    /\ pc = "backend"
    /\ inLandmarks = <<>>
    /\ gesture = "NONE"
    /\ history = <<>>
    /\ lastAppend = <<>>
    /\ insights = <<>>
    /\ gs = createInitialState("TACTICAL")
    /\ lastAction = NoAction
    /\ inState = createInitialState("TACTICAL")
    /\ hitRun = 0
    /\ TrackerIdle
    /\ AppIdle

backendFrame == <<classifyVars, analyticsVars, reducerVars, trackerVars, appVars>>

Exchange(route, header, statusCode, code, handlerRan, after) ==
    [route |-> route, header |-> header, statusCode |-> statusCode, code |-> code,
     handlerRan |-> handlerRan, before |-> store, after |-> after]

\* POST /auth/register up to the first await of AuthService.register that
\* yields: validation, normalizeEmail and the lookup
RegisterRequest ==
    /\ Len(calls) < MaxRegisters
    /\ \E raw \in RawEmails :
        IF ~isEmail(raw)
        THEN /\ reply' = Exchange("POST /auth/register", NoHeader, 422,
                                  "VALIDATION_ERROR", FALSE, store)
             /\ UNCHANGED <<store, calls>>
        ELSE IF findUserByEmail(store, normalizeEmail(raw)) # {}
        THEN /\ reply' = Exchange("POST /auth/register", NoHeader, 409,
                                  "CONFLICT", TRUE, store)
             /\ UNCHANGED <<store, calls>>
        ELSE /\ calls' = Append(calls, [email |-> normalizeEmail(raw), pc |-> "hash"])
             /\ UNCHANGED <<store, reply>>
    /\ UNCHANGED <<serverVars, backendFrame>>

\* bcrypt.hash has resolved: createUser and the 201 response
RegisterCreateUser ==
    /\ \E i \in 1..Len(calls) :
        /\ calls[i].pc = "hash"
        /\ store' = createUser(store, [id |-> i, email |-> calls[i].email,
                                       role |-> "PLAYER"])
        /\ calls' = [calls EXCEPT ![i].pc = "done"]
        /\ reply' = Exchange("POST /auth/register", NoHeader, 201, "NONE", TRUE, store')
    /\ UNCHANGED <<serverVars, backendFrame>>

\* one request to a protected route
ProtectedRequest ==
    /\ \E route \in ProtectedRoutes, header \in Headers(store), inputOk \in BOOLEAN :
        LET served == serve(route, header, inputOk, store)
        IN  /\ Len(served.store.matches) <= MaxMatches
            /\ store' = served.store
            /\ reply' = Exchange(route, header, served.statusCode, served.code,
                                 served.handlerRan, served.store)
    /\ UNCHANGED <<calls, serverVars, backendFrame>>

InitRegister == BackendInit(BootStores)

NextRegister == RegisterRequest \/ RegisterCreateUser

SpecRegister == InitRegister /\ [][NextRegister]_vars

InitRoutes == BackendInit(RouteStores)

NextRoutes == ProtectedRequest

SpecRoutes == InitRoutes /\ [][NextRoutes]_vars

\* the request carries a bearer token that is valid and not expired
Authenticated(header) ==
    /\ header.scheme = "Bearer"
    /\ header.token.state = "valid"

\* C19: a protected route answers 401 UNAUTHORIZED when the Authorization
\* header is missing, is not a Bearer token, or carries an invalid or expired
\* JWT; the route handler does not run and the store is not modified.
C19_ProtectedRoutesRejectUnauthenticated ==
    (reply # <<>> /\ reply.route \in ProtectedRoutes /\ ~Authenticated(reply.header)) =>
        /\ reply.statusCode = 401
        /\ reply.code = "UNAUTHORIZED"
        /\ ~reply.handlerRan
        /\ reply.after = reply.before

\* a match submission with the expired token of a stored user was rejected
C19_Witness ==
    /\ reply # <<>>
    /\ reply.route = "POST /matches"
    /\ reply.header.scheme = "Bearer"
    /\ reply.header.token.state = "expired"
    /\ findUserById(store, reply.header.token.sub) # {}
    /\ reply.statusCode = 401

\* C20: no two stored users have the same normalized e-mail, for every
\* interleaving of concurrent register calls: the second registration of an
\* e-mail is rejected with 409 CONFLICT and adds no user.
C20_UniqueEmails ==
    \A i \in 1..Len(store.users) : \A j \in 1..Len(store.users) :
        store.users[i].email = store.users[j].email => i = j

(***************************************************************************)
(* Frame conditions of the reducer.                                        *)
(***************************************************************************)
\* everything of a GameState but its status
Telemetry(state) ==
    [ammo |-> state.ammo, health |-> state.health, score |-> state.score,
     wave |-> state.wave, isReloading |-> state.isReloading, stats |-> state.stats]

\* C29: while status is PAUSED no action other than START_MATCH and
\* RETURN_MENU changes ammo, health, score, wave, isReloading or any stats
\* field: a reload timer expiry, damage, shots and wave changes that arrive
\* during a pause leave everything but status unchanged.
C29_PausedTelemetryFrozen ==
    [][(gs.status = "PAUSED" /\ ~ResetDispatched(dispatched'))
            => Telemetry(gs') = Telemetry(gs)]_vars

\* C30: SET_WAVE in a status other than MENU changes only wave and
\* stats.highestWave (to the maximum of its old value and the new wave);
\* every other field, stats.sessionEndedAt after game over included, is
\* unchanged, and highestWave >= wave afterwards.
C30_SetWaveFrame ==
    (pc = "out" /\ lastAction.type = "SET_WAVE" /\ inState.status # "MENU") =>
        /\ gs = [inState EXCEPT
                    !.wave = lastAction.wave,
                    !.stats.highestWave =
                        IF lastAction.wave >= @ THEN lastAction.wave ELSE @]
        /\ gs.stats.highestWave >= gs.wave

(***************************************************************************)
(* The App's copy of the HandState.                                        *)
(***************************************************************************)
\* C25: HandState has a single writer: after any sequence of frames,
\* START_MATCH and RETURN_MENU the HandState held by the App equals the
\* HandState the tracker propagated last, so a gesture still being
\* classified after a return to menu shows in the App's HandState.
C25_HandStateIsLastPropagated ==
    lastStateRef # NullState => handState = lastStateRef

(***************************************************************************)
(* The footstep haptic interval of the App.                                *)
(***************************************************************************)
\* key V while PLAYING, or "Cinematica" of the command bar (PLAYING or PAUSED)
openCinematic ==
    /\ gs.status \in {"PLAYING", "PAUSED"}
    /\ ~isCinematicOpen
    /\ CommitWith(gs, handState, TRUE, <<>>)
    /\ UNCHANGED <<selectedDifficulty, lastStateRef, appFrame>>

\* key Escape, or onClose of the CinematicGenerator
closeCinematic ==
    /\ isCinematicOpen
    /\ CommitWith(gs, handState, FALSE, <<>>)
    /\ UNCHANGED <<selectedDifficulty, lastStateRef, appFrame>>

\* the callback of an active footstep interval (every 420 ms)
footstepTick ==
    /\ footstepIntervals > 0
    /\ stepCycleRef < MaxSteps
    /\ stepCycleRef' = stepCycleRef + 1
    /\ dispatched' = <<>>
    /\ UNCHANGED <<gs, handState, selectedDifficulty, reloadTimeoutRef, timerStale,
                   pendingTimers, isCinematicOpen, footstepIntervals,
                   lastStateRef, appFrame>>

NextFootstep ==
    \/ startMatch
    \/ returnToMenu
    \/ pauseMatch
    \/ resumeMatch
    \/ handleTakeDamage
    \/ reloadTimerFires
    \/ trackerFrame
    \/ openCinematic
    \/ closeCinematic
    \/ footstepTick

SpecFootstep == InitApp /\ [][NextFootstep]_vars

\* the condition under which the footstep effect sets its interval
FootstepCondition ==
    gs.status = "PLAYING" /\ handState.movement # "STOP" /\ ~isCinematicOpen

\* C28: the footstep interval exists exactly while status is PLAYING, the
\* movement gesture is not STOP and the cinematic overlay is closed: at most
\* one interval is active at any time, and no footstep tick happens while
\* paused, in the menu, after game over or while movement is STOP.
C28_FootstepIntervalExactlyWhileWalking ==
    /\ [](footstepIntervals = IF FootstepCondition THEN 1 ELSE 0)
    /\ [][stepCycleRef' # stepCycleRef => FootstepCondition]_vars

\* footsteps were felt, the interval is gone with the pause
C28_Witness ==
    /\ stepCycleRef > 0
    /\ gs.status = "PAUSED"
    /\ handState.movement = "FORWARD"
    /\ footstepIntervals = 0

(***************************************************************************)
(* Reloading.  A timer set by window.setTimeout fires after its 1400 ms    *)
(* unless the App is unmounted: weak fairness of reloadTimerFires.         *)
(***************************************************************************)
SpecReload == InitApp /\ [][Next]_vars /\ WF_vars(reloadTimerFires)

\* C27: a reload never gets stuck: whenever isReloading is true a reload
\* timer is pending, at most one reload timer is pending at any time, and
\* every accepted RELOAD_START is eventually followed by RELOAD_COMPLETE or by
\* a reset (isReloading does not stay true for ever).
C27_ReloadNeverStuck ==
    /\ [](gs.isReloading => reloadTimeoutRef /\ pendingTimers > 0)
    /\ [](pendingTimers <= 1)
    /\ (gs.isReloading ~> ~gs.isReloading)

\* a reload is under way after game over
C27_Witness ==
    /\ gs.isReloading
    /\ gs.status = "GAMEOVER"
    /\ pendingTimers = 1

\* C26: whenever the combat gesture becomes RELOAD while status is PLAYING,
\* isReloading is false and ammo < maxAmmo, a reload starts: RELOAD_START is
\* dispatched and accepted (and the magazine is full again once the timer has
\* fired), also when an earlier RELOAD gesture was made at full ammo shortly
\* before.
C26_ReloadGestureStartsReload ==
    [][(/\ handState.combat # "RELOAD" /\ handState'.combat = "RELOAD"
        /\ gs.status = "PLAYING" /\ ~gs.isReloading /\ gs.ammo < gs.maxAmmo)
            => (/\ gs'.isReloading
                /\ \E i \in 1..Len(dispatched') :
                        dispatched'[i].action = ReloadStartAction)]_vars

(***************************************************************************)
(* SpecStore: concurrent JsonFileStore.write calls.  A call applies its    *)
(* mutator to the in-memory state, chains a persist on writeQueue and      *)
(* waits for it; a persist serializes the state it finds, writes the       *)
(* temporary file and renames it over the data file.  fs calls succeed.    *)
(***************************************************************************)
\* everything outside the backend, before any event
OutsideBackendIdle ==
    /\ inLandmarks = <<>>
    /\ gesture = "NONE"
    /\ history = <<>>
    /\ lastAppend = <<>>
    /\ insights = <<>>
    /\ gs = createInitialState("TACTICAL")
    /\ lastAction = NoAction
    /\ inState = createInitialState("TACTICAL")
    /\ hitRun = 0
    /\ TrackerIdle
    /\ AppIdle

incrementAuthFailures(state) == [state EXCEPT !.metrics.authFailures = @ + 1]

\* JSON.stringify(this.state, null, 2): the keys of StoreState in the order
\* defaultState sets them, each followed by its value
JSONstringifyState(state) ==
    <<"users", state.users, "matches", state.matches,
      "calibrations", state.calibrations, "metrics", state.metrics>>

\* the state a text is the complete serialization of, if any
JSONparseState(text) ==
    IF Len(text) # 8 THEN {}
    ELSE {st \in {[users |-> text[2], matches |-> text[4], calibrations |-> text[6],
                   metrics |-> text[8]]} : JSONstringifyState(st) = text}

NoFile == <<"ENOENT">>

Writers == 1..MaxWrites

\* mutant: every write persists at once, not chained on writeQueue
mayPersist_Unchained(w) == \E i \in 1..Len(writeQueue) : writeQueue[i] = w

\* writeQueue.then(() => this.persist()): the persist of w runs once the
\* persists chained before it have completed
mayPersist(w) == writeQueue # <<>> /\ Head(writeQueue) = w

\* write(): the mutator runs on this.state; the await yields
writeMutate ==
    /\ \E w \in Writers :
        /\ writes[w].pc = "idle"
        /\ \E next \in {incrementAuthFailures(store), insertMatch(store, [userId |-> w])} :
            store' = next
        /\ writes' = [writes EXCEPT ![w].pc = "mutated"]
    /\ UNCHANGED <<disk, writeQueue, calls, reply, cinematicService, clock, backendFrame>>

\* write(): this.writeQueue = this.writeQueue.then(() => this.persist())
writeChain ==
    /\ \E w \in Writers :
        /\ writes[w].pc = "mutated"
        /\ writeQueue' = Append(writeQueue, w)
        /\ writes' = [writes EXCEPT ![w].pc = "queued"]
    /\ UNCHANGED <<store, disk, calls, reply, cinematicService, clock, backendFrame>>

\* persist(): the payload is the serialization of the state as it is now
persistStringify ==
    /\ \E w \in Writers :
        /\ writes[w].pc = "queued"
        /\ mayPersist(w)
        /\ writes' = [writes EXCEPT ![w] = [pc |-> "stringified",
                                            payload |-> JSONstringifyState(store)]]
    /\ UNCHANGED <<store, disk, writeQueue, calls, reply, cinematicService, clock,
                   backendFrame>>

\* persist(): fs.writeFile has written part of the payload to the temporary file
persistWriteFilePartly ==
    /\ \E w \in Writers :
        /\ writes[w].pc = "stringified"
        /\ disk' = [disk EXCEPT !.tmp = SubSeq(writes[w].payload, 1, 4)]
        /\ writes' = [writes EXCEPT ![w].pc = "writing"]
    /\ UNCHANGED <<store, writeQueue, calls, reply, cinematicService, clock, backendFrame>>

\* persist(): fs.writeFile has resolved
persistWriteFile ==
    /\ \E w \in Writers :
        /\ writes[w].pc = "writing"
        /\ disk' = [disk EXCEPT !.tmp = writes[w].payload]
        /\ writes' = [writes EXCEPT ![w].pc = "written"]
    /\ UNCHANGED <<store, writeQueue, calls, reply, cinematicService, clock, backendFrame>>

\* persist(): fs.rename(temporaryPath, filePath); the write call returns
persistRename ==
    /\ \E w \in Writers :
        /\ writes[w].pc = "written"
        /\ disk.tmp # NoFile
        /\ disk' = [file |-> disk.tmp, tmp |-> NoFile]
        /\ writes' = [writes EXCEPT ![w].pc = "done"]
        /\ writeQueue' = SelectSeq(writeQueue, LAMBDA v : v # w)
    /\ UNCHANGED <<store, calls, reply, cinematicService, clock, backendFrame>>

\* after init(): the data file holds the state, no write has been called
InitStore ==
    /\ store = defaultState
    /\ calls = <<>>
    /\ reply = <<>>
    /\ disk = [file |-> JSONstringifyState(defaultState), tmp |-> NoFile]
    /\ writes = [w \in Writers |-> [pc |-> "idle", payload |-> <<>>]]
    /\ writeQueue = <<>>
    /\ cinematicService = FALSE
    /\ clock = 0
    /\ pc = "store"
    /\ OutsideBackendIdle

NextStore ==
    \/ writeMutate
    \/ writeChain
    \/ persistStringify
    \/ persistWriteFilePartly
    \/ persistWriteFile
    \/ persistRename

SpecStore == InitStore /\ [][NextStore]_vars

\* the write calls whose persist is executing
Persisting == {w \in Writers : writes[w].pc \in {"stringified", "writing", "written"}}

\* the write calls that have been made and have not returned
PendingWrites == {w \in Writers : writes[w].pc \notin {"idle", "done"}}

\* C21: JsonFileStore writes are serialized and atomic: in every interleaving
\* of concurrent write() calls at most one persist is executing at any time,
\* the data file always holds one complete serialized state, and once all
\* pending writes have completed the file content equals the in-memory state.
C21_WritesSerializedAndAtomic ==
    /\ Cardinality(Persisting) <= 1
    /\ JSONparseState(disk.file) # {}
    /\ PendingWrites = {} => disk.file = JSONstringifyState(store)

\* a persist has written the temporary file while a later write waits in the
\* queue and the data file is behind the in-memory state
C21_Witness ==
    /\ \E w \in Writers : writes[w].pc = "written" /\ disk.tmp = writes[w].payload
    /\ Len(writeQueue) = 2
    /\ disk.file # JSONstringifyState(store)
    /\ disk.tmp # JSONstringifyState(store)

(***************************************************************************)
(* SpecCinematic: POST /cinematics/generate of a server with or without a  *)
(* cinematic service (GeminiCinematicService when BACKEND_GEMINI_API_KEY   *)
(* is set).  A prompt is represented by its length, the base64 text by its *)
(* characters.                                                             *)
(***************************************************************************)
NotAnObject == [kind |-> "not an object"]

CinematicBodies ==
    {NotAnObject} \cup
    [prompt : {11, 12, 340, 341},
     aspectRatio : {"16:9", "9:16", "4:3"},
     image : [base64 : {<<>>, <<"Q", "=">>, <<"Q", "!">>},
              mimeType : {"image/png", "IMAGE/JPEG", "image/gif"}]]

\* the flag i of the mimeType pattern
ignoreCase(str) == IF str = "IMAGE/JPEG" THEN "image/jpeg" ELSE str

\* /^[A-Za-z0-9+/=]+$/ over the characters used here
isBase64(str) == str # <<>> /\ \A i \in 1..Len(str) : str[i] \in {"Q", "q", "0", "+", "/", "="}

imagePayloadSchema(image) ==
    /\ isBase64(image.base64)
    /\ ignoreCase(image.mimeType) \in {"image/png", "image/jpeg", "image/jpg", "image/webp"}

cinematicGenerationSchema(body) ==
    /\ body # NotAnObject
    /\ body.prompt >= 12 /\ body.prompt <= 340
    /\ body.aspectRatio \in {"16:9", "9:16"}
    /\ imagePayloadSchema(body.image)

\* what the video generation of a call comes to
ServiceOutcomes == {"video", "timeout", "noVideo", "downloadFailed"}

\* GeminiCinematicService.generate: its result, or the AppError it throws
generate(input, outcome) ==
    CASE outcome = "timeout" -> [error |-> AppError(504, "INTERNAL_ERROR")]
      [] outcome \in {"noVideo", "downloadFailed"} -> [error |-> AppError(502, "INTERNAL_ERROR")]
      [] OTHER -> [videoBase64 |-> <<"v", input.prompt>>, mimeType |-> "video/mp4",
                   aspectRatio |-> input.aspectRatio, prompt |-> input.prompt]

NoPayload == [kind |-> "error payload"]

Answer(statusCode, code, serviceCalled, payload) ==
    [statusCode |-> statusCode, code |-> code, serviceCalled |-> serviceCalled,
     payload |-> payload]

\* mutant: the payload is validated before the service is looked up
cinematicsGenerate_ValidateFirst(configured, body, outcome) ==
    IF ~cinematicGenerationSchema(body) THEN Answer(422, "VALIDATION_ERROR", FALSE, NoPayload)
    ELSE IF ~configured THEN Answer(503, "SERVICE_UNAVAILABLE", FALSE, NoPayload)
    ELSE Answer(200, "NONE", TRUE, NoPayload)

\* the handler of POST /cinematics/generate and the error handler
cinematicsGenerate(configured, body, outcome) ==
    IF ~configured THEN Answer(503, "SERVICE_UNAVAILABLE", FALSE, NoPayload)
    ELSE IF ~cinematicGenerationSchema(body)
    THEN Answer(422, "VALIDATION_ERROR", FALSE, NoPayload)
    ELSE LET result == generate(body, outcome)
         IN  IF "error" \in DOMAIN result
             THEN Answer(result.error.statusCode, result.error.code, TRUE, NoPayload)
             ELSE Answer(200, "NONE", TRUE,
                         [video |-> [base64 |-> result.videoBase64,
                                     mimeType |-> result.mimeType],
                          meta |-> [aspectRatio |-> result.aspectRatio,
                                    prompt |-> result.prompt]])

\* one request to POST /cinematics/generate
GenerateRequest ==
    /\ \E body \in CinematicBodies, outcome \in ServiceOutcomes :
        LET answer == cinematicsGenerate(cinematicService, body, outcome)
        IN  reply' = [route |-> "POST /cinematics/generate", body |-> body,
                      outcome |-> outcome, statusCode |-> answer.statusCode,
                      code |-> answer.code, serviceCalled |-> answer.serviceCalled,
                      payload |-> answer.payload]
    /\ UNCHANGED <<store, calls, disk, writes, writeQueue, cinematicService, clock,
                   backendFrame>>

InitCinematic ==
    /\ store = defaultState
    /\ calls = <<>>
    /\ reply = <<>>
    /\ disk = <<>>
    /\ writes = <<>>
    /\ writeQueue = <<>>
    /\ cinematicService \in BOOLEAN
    /\ clock = 0
    /\ pc = "cinematic"
    /\ OutsideBackendIdle

SpecCinematic == InitCinematic /\ [][GenerateRequest]_vars

\* the body is a valid generation request
ValidGenerationRequest(body) ==
    /\ body # NotAnObject
    /\ body.prompt \in 12..340
    /\ body.aspectRatio \in {"16:9", "9:16"}
    /\ body.image.base64 = <<"Q", "=">>
    /\ body.image.mimeType \in {"image/png", "IMAGE/JPEG"}

\* the 200 answer carries the service's video and echoes the aspect ratio
VideoAnswer ==
    /\ reply.statusCode = 200
    /\ reply.serviceCalled
    /\ reply.payload.video.mimeType = "video/mp4"
    /\ reply.payload.meta.aspectRatio = reply.body.aspectRatio

\* without a service every body is answered 503; with one, an invalid body is
\* answered 422 and the service is not called
UnavailableOrInvalid ==
    /\ ~cinematicService =>
            /\ reply.statusCode = 503
            /\ reply.code = "SERVICE_UNAVAILABLE"
            /\ ~reply.serviceCalled
    /\ (cinematicService /\ ~ValidGenerationRequest(reply.body)) =>
            /\ reply.statusCode = 422
            /\ reply.code = "VALIDATION_ERROR"
            /\ ~reply.serviceCalled

Num(n) == [type |-> "number", value |-> n]
Str == [type |-> "string", value |-> 0]

CalibrationBodies ==
    {NotAnObject} \cup
    [movementDeadzone : {Num(-1), Num(100), Num(101), Str},
     smoothingFrames : {Num(0), Num(10), Num(25), Num(100), Num(110), Str}]

\* z.number().min(0).max(1), in hundredths
thresholdSchema(v) == v.type = "number" /\ v.value >= 0 /\ v.value <= 100

\* z.number().int().min(1).max(10), in tenths
smoothingFramesSchema(v) ==
    v.type = "number" /\ v.value % 10 = 0 /\ v.value >= 10 /\ v.value <= 100

calibrationSchema(body) ==
    /\ body # NotAnObject
    /\ thresholdSchema(body.movementDeadzone)
    /\ smoothingFramesSchema(body.smoothingFrames)

\* the handler of PUT /profile/calibration
putCalibration(auth, body, state) ==
    IF ~calibrationSchema(body) THEN Sent(422, "VALIDATION_ERROR", state)
    ELSE Sent(200, "NONE",
              upsertCalibration(state, auth.sub,
                                [movementDeadzone |-> body.movementDeadzone.value,
                                 smoothingFrames |-> body.smoothingFrames.value]))

\* no Authorization header, or the valid token of a stored user
ProfileHeaders(state) ==
    {h \in Headers(state) :
        h = NoHeader \/ (h.scheme = "Bearer" /\ h.token.state = "valid"
                                             /\ h.token.sub # UnknownSub)}

\* one request to PUT /profile/calibration
PutCalibrationRequest ==
    /\ \E header \in ProfileHeaders(store), body \in CalibrationBodies :
        LET checked == preHandler("PUT /profile/calibration", header)
        IN  IF checked.error # {}
            THEN LET e == CHOOSE e \in checked.error : TRUE
                 IN  /\ reply' = [body |-> body] @@
                                 Exchange("PUT /profile/calibration", header,
                                          e.statusCode, e.code, FALSE, store)
                     /\ UNCHANGED store
            ELSE LET auth == CHOOSE a \in checked.auth : TRUE
                     sent == putCalibration(auth, body, store)
                 IN  /\ store' = sent.store
                     /\ reply' = [body |-> body] @@
                                 Exchange("PUT /profile/calibration", header,
                                          sent.statusCode, sent.code, TRUE, sent.store)
    /\ UNCHANGED <<calls, serverVars, backendFrame>>

InitProfile == BackendInit(RouteStores)

SpecProfile == InitProfile /\ [][PutCalibrationRequest]_vars

\* every field of the body has its type and is inside its range
CalibrationInRange(body) ==
    /\ body # NotAnObject
    /\ body.movementDeadzone.type = "number"
    /\ body.movementDeadzone.value \in 0..100
    /\ body.smoothingFrames \in {Num(10), Num(100)}

\* the number of calibration records of a user
CalibrationsOf(state, userId) ==
    Cardinality({i \in 1..Len(state.calibrations) : state.calibrations[i].userId = userId})

\* C23: a calibration update with a field outside its range or of the wrong
\* type is rejected with a validation error and the stored calibration of
\* the user (the whole store) is left unchanged; after an accepted update
\* there is at most one calibration record per user.
C23_CalibrationValidatedAndUnique ==
    /\ \A i \in 1..Len(store.calibrations) :
            CalibrationsOf(store, store.calibrations[i].userId) = 1
    /\ (reply # <<>> /\ Authenticated(reply.header)) =>
            IF CalibrationInRange(reply.body)
            THEN /\ reply.statusCode = 200
                 /\ CalibrationsOf(reply.after, reply.header.token.sub) = 1
            ELSE /\ reply.statusCode = 422
                 /\ reply.code = "VALIDATION_ERROR"
                 /\ reply.after = reply.before
                 /\ getCalibration(reply.after, reply.header.token.sub)
                        = getCalibration(reply.before, reply.header.token.sub)

\* an update with smoothingFrames 2.5 by a user who has a stored calibration
\* was rejected
C23_Witness ==
    /\ reply # <<>>
    /\ Authenticated(reply.header)
    /\ reply.body # NotAnObject
    /\ reply.body.smoothingFrames = Num(25)
    /\ reply.body.movementDeadzone = Num(100)
    /\ reply.statusCode = 422
    /\ getCalibration(reply.before, reply.header.token.sub) # {}

(***************************************************************************)
(* SpecMatches: POST /matches, GET /matches/summary and GET /leaderboard   *)
(* of a server with two users.  Time is in days; accuracy is submitted in  *)
(* thousandths of a percent and stored in hundredths (toFixed(2)).  Of a   *)
(* match the fields the summary count and the leaderboard read are kept.   *)
(***************************************************************************)
MatchPayloads ==
    {[score |-> 100, accuracy |-> 50000, difficulty |-> "CASUAL"],
     [score |-> 200, accuracy |-> 50000, difficulty |-> "INSANE"],
     [score |-> 200, accuracy |-> 90004, difficulty |-> "CASUAL"],
     [score |-> -1, accuracy |-> 50000, difficulty |-> "CASUAL"]}

matchSubmissionSchema(body) ==
    /\ body.score >= 0 /\ body.score <= 5000000
    /\ body.accuracy >= 0 /\ body.accuracy <= 100000
    /\ body.difficulty \in {"CASUAL", "TACTICAL", "INSANE"}

\* MatchService.submitMatch: the store after it, or the 404
submitMatch(state, userId, payload, now) ==
    IF findUserById(state, userId) = {} THEN Sent(404, "NOT_FOUND", state)
    ELSE Sent(201, "NONE",
              insertMatch(state, [userId |-> userId, score |-> payload.score,
                                  accuracy |-> RoundDiv(payload.accuracy, 10),
                                  difficulty |-> payload.difficulty,
                                  createdAt |-> now]))

nowMinusDays(now, days) == now - days

\* totalMatches and bestScore of the MatchSummary
getMatchSummary(state, userId, days, now) ==
    LET cutoff == nowMinusDays(now, days)
        matches == SelectSeq(state.matches,
                             LAMBDA match : match.userId = userId /\ match.createdAt >= cutoff)
    IN  IF Len(matches) = 0 THEN [totalMatches |-> 0, bestScore |-> 0]
        ELSE [totalMatches |-> Len(matches), bestScore |-> maxFrom(matches, "score", 1)]

\* mutant: a later match of the user always replaces the best score
accumulate_Latest(current, match) ==
    [current EXCEPT !.totalMatches = @ + 1, !.bestScore = match.score,
                    !.bestAccuracy = match.accuracy]

\* the update of a user's leaderboard entry by a further match
accumulate(current, match) ==
    IF match.score > current.bestScore
    THEN [current EXCEPT !.totalMatches = @ + 1, !.bestScore = match.score,
                         !.bestAccuracy = match.accuracy]
    ELSE [current EXCEPT !.totalMatches = @ + 1]

RECURSIVE byUserFrom(_, _, _, _)
\* the loop over the filtered matches: the values of the Map byUser, in
\* insertion order
byUserFrom(state, filtered, i, entries) ==
    IF i > Len(filtered) THEN entries
    ELSE LET match == filtered[i]
             known == {k \in 1..Len(entries) : entries[k].userId = match.userId}
         IN  IF findUserById(state, match.userId) = {}
             THEN byUserFrom(state, filtered, i + 1, entries)
             ELSE IF known = {}
             THEN byUserFrom(state, filtered, i + 1,
                             Append(entries, [userId |-> match.userId,
                                              bestScore |-> match.score,
                                              bestAccuracy |-> match.accuracy,
                                              totalMatches |-> 1]))
             ELSE byUserFrom(state, filtered, i + 1,
                             [k \in 1..Len(entries) |->
                                 IF k \in known THEN accumulate(entries[k], match)
                                 ELSE entries[k]])

\* the comparator (a, b) => b.bestScore - a.bestScore || b.bestAccuracy - a.bestAccuracy
compareEntries(a, b) ==
    IF b.bestScore - a.bestScore # 0 THEN b.bestScore - a.bestScore
    ELSE b.bestAccuracy - a.bestAccuracy

\* one step of the stable sort: x goes behind every entry the comparator
\* does not put after it
InsertEntry(sorted, x) ==
    LET k == Cardinality({i \in 1..Len(sorted) : compareEntries(sorted[i], x) <= 0})
    IN  SubSeq(sorted, 1, k) \o <<x>> \o SubSeq(sorted, k + 1, Len(sorted))

RECURSIVE sortEntriesFrom(_, _, _)
sortEntriesFrom(list, i, sorted) ==
    IF i > Len(list) THEN sorted
    ELSE sortEntriesFrom(list, i + 1, InsertEntry(sorted, list[i]))

\* filters.difficulty and filters.days are NULL when the query has none
getLeaderboard(state, filters, now) ==
    LET filtered ==
            SelectSeq(state.matches,
                      LAMBDA match :
                        /\ filters.difficulty = "NONE" \/ match.difficulty = filters.difficulty
                        /\ filters.days = NULL
                                \/ match.createdAt >= nowMinusDays(now, filters.days))
    IN  slice0(sortEntriesFrom(byUserFrom(state, filtered, 1, <<>>), 1, <<>>),
               filters.limit)

\* the query strings of GET /leaderboard; NULL and "NONE" are absent parameters
LeaderboardQueries ==
    [limit : {NULL, 0, 1}, difficulty : {"NONE", "CASUAL"}, days : {NULL, 1}]

\* leaderboardQuerySchema: the parsed query, or none
leaderboardQuerySchema(query) ==
    IF query.limit # NULL /\ (query.limit < 1 \/ query.limit > 100) THEN {}
    ELSE IF query.days # NULL /\ (query.days < 1 \/ query.days > 365) THEN {}
    ELSE {[query EXCEPT !.limit = IF @ = NULL THEN 20 ELSE @]}

\* the valid tokens of the stored users
PlayerHeaders(state) == {h \in ProfileHeaders(state) : h # NoHeader}

MatchExchange(route, header, query, statusCode, result, after) ==
    [route |-> route, header |-> header, query |-> query, statusCode |-> statusCode,
     result |-> result, before |-> store, after |-> after, now |-> clock]

\* POST /matches
SubmitMatchRequest ==
    /\ Len(store.matches) < MaxSubmissions
    /\ \E header \in PlayerHeaders(store), body \in MatchPayloads :
        LET auth == CHOOSE a \in requireAuth(header).auth : TRUE
            sent == IF matchSubmissionSchema(body)
                    THEN submitMatch(store, auth.sub, body, clock)
                    ELSE Sent(422, "VALIDATION_ERROR", store)
        IN  /\ store' = sent.store
            /\ reply' = MatchExchange("POST /matches", header, body, sent.statusCode,
                                      <<>>, sent.store)
    /\ UNCHANGED <<calls, serverVars, backendFrame>>

\* GET /matches/summary?days=
MatchSummaryRequest ==
    /\ \E header \in PlayerHeaders(store), days \in {1, 2} :
        LET auth == CHOOSE a \in requireAuth(header).auth : TRUE
        IN  reply' = MatchExchange("GET /matches/summary", header, [days |-> days], 200,
                                   getMatchSummary(store, auth.sub, days, clock), store)
    /\ UNCHANGED <<store, calls, serverVars, backendFrame>>

\* GET /leaderboard
LeaderboardRequest ==
    /\ \E query \in LeaderboardQueries :
        LET parsed == leaderboardQuerySchema(query)
        IN  reply' = IF parsed = {}
                     THEN MatchExchange("GET /leaderboard", NoHeader, query, 422, <<>>, store)
                     ELSE MatchExchange("GET /leaderboard", NoHeader, query, 200,
                                        getLeaderboard(store, CHOOSE f \in parsed : TRUE, clock),
                                        store)
    /\ UNCHANGED <<store, calls, serverVars, backendFrame>>

\* two days pass
TwoDaysPass ==
    /\ clock < 2 * MaxTicks
    /\ clock' = clock + 2
    /\ UNCHANGED <<store, calls, reply, disk, writes, writeQueue, cinematicService,
                   backendFrame>>

InitMatches == BackendInit({st \in RouteStores : Len(st.users) = 2})

NextMatches ==
    \/ SubmitMatchRequest
    \/ MatchSummaryRequest
    \/ LeaderboardRequest
    \/ TwoDaysPass

SpecMatches == InitMatches /\ [][NextMatches]_vars

\* the matches of a user that a leaderboard query counts
CountedMatches(state, userId, query, now) ==
    {i \in 1..Len(state.matches) :
        /\ state.matches[i].userId = userId
        /\ query.difficulty # "NONE" => state.matches[i].difficulty = query.difficulty
        /\ query.days # NULL => state.matches[i].createdAt >= now - query.days}

\* C24: after any sequence of accepted submissions, the summary's
\* totalMatches is the number of the caller's matches inside the day window;
\* the leaderboard has at most one entry per user, each entry's bestScore is
\* the maximum score among the user's matches passing the difficulty and day
\* filters, the entries are in non-increasing order of bestScore (ties in
\* non-increasing order of bestAccuracy), and there are at most limit entries.
C24_SummaryAndLeaderboard ==
    /\ (reply # <<>> /\ reply.route = "GET /matches/summary") =>
            reply.result.totalMatches =
                Cardinality({i \in 1..Len(reply.before.matches) :
                    /\ reply.before.matches[i].userId = reply.header.token.sub
                    /\ reply.before.matches[i].createdAt >= reply.now - reply.query.days})
    /\ (reply # <<>> /\ reply.route = "GET /leaderboard" /\ reply.statusCode = 200) =>
            LET board == reply.result
                limit == IF reply.query.limit = NULL THEN 20 ELSE reply.query.limit
            IN  /\ Len(board) <= limit
                /\ \A i, j \in 1..Len(board) : i < j =>
                        /\ board[i].userId # board[j].userId
                        /\ \/ board[i].bestScore > board[j].bestScore
                           \/ /\ board[i].bestScore = board[j].bestScore
                              /\ board[i].bestAccuracy >= board[j].bestAccuracy
                /\ \A i \in 1..Len(board) :
                        LET counted == CountedMatches(reply.before, board[i].userId,
                                                      reply.query, reply.now)
                        IN  /\ counted # {}
                            /\ \A k \in counted :
                                    reply.before.matches[k].score <= board[i].bestScore
                            /\ \E k \in counted :
                                    reply.before.matches[k].score = board[i].bestScore

\* a leaderboard over two matches of one user, the better one submitted first
C24_Witness ==
    /\ reply # <<>>
    /\ reply.route = "GET /leaderboard"
    /\ reply.statusCode = 200
    /\ Len(reply.result) = 1
    /\ Len(reply.before.matches) = 2
    /\ reply.before.matches[1].userId = reply.before.matches[2].userId
    /\ reply.before.matches[1].score > reply.before.matches[2].score
    /\ reply.result[1].bestScore = reply.before.matches[1].score

(***************************************************************************)
(* The MatchStats of a session and the game-over flag.                     *)
(***************************************************************************)
\* the counters of MatchStats that accumulate
Counters == {"shotsFired", "shotsHit", "enemiesDefeated", "highestWave", "bestStreak"}

\* C31: one reducer step other than START_MATCH / RETURN_MENU never decreases
\* shotsFired, shotsHit, enemiesDefeated, highestWave or bestStreak and keeps
\* shotsHit <= shotsFired; START_MATCH resets the stats to their base values
\* with sessionStartedAt the action's timestamp and sessionEndedAt null.
C31_StatsMonotoneWithinSession ==
    pc = "out" =>
        /\ lastAction.type \notin {"START_MATCH", "RETURN_MENU"} =>
                /\ \A c \in Counters : gs.stats[c] >= inState.stats[c]
                /\ inState.stats.shotsHit <= inState.stats.shotsFired
                        => gs.stats.shotsHit <= gs.stats.shotsFired
        /\ lastAction.type = "START_MATCH" =>
                /\ gs.stats.shotsFired = 0 /\ gs.stats.shotsHit = 0
                /\ gs.stats.enemiesDefeated = 0 /\ gs.stats.highestWave = 1
                /\ gs.stats.currentStreak = 0 /\ gs.stats.bestStreak = 0
                /\ gs.stats.sessionStartedAt = lastAction.startedAt
                /\ gs.stats.sessionEndedAt = NULL

\* a wave below the highest one was set, and the highest one is kept
C31_Witness ==
    /\ pc = "out" /\ lastAction.type = "SET_WAVE"
    /\ inState.status = "PLAYING"
    /\ lastAction.wave < inState.stats.highestWave
    /\ gs.wave = lastAction.wave
    /\ gs.stats.highestWave = inState.stats.highestWave

\* C32: in every reachable GameState, isGameOver is true exactly when status
\* is GAMEOVER.
C32_GameOverFlagMatchesStatus == gs.isGameOver <=> gs.status = "GAMEOVER"

\* the player died
C32_Witness == gs.isGameOver /\ gs.status = "GAMEOVER" /\ gs.health = 0

(***************************************************************************)
(* SpecAssign: the role assignment of onResults, applied to one frame of   *)
(* up to two hands on either side of the midpoint and on it.               *)
(***************************************************************************)
AssignHands ==
    {pose : pose \in UNION {{RelaxedHandAt(Pt(wx, wy)), GunHandAt(Pt(wx, wy)),
                             OpenHandAt(Pt(wx, wy))} :
                                wx \in {25, 49, 50, 75}, wy \in {30, 50}}}

AssignFrames ==
    {<<>>} \cup {<<h>> : h \in AssignHands}
    \cup {<<h1, h2>> : h1 \in AssignHands, h2 \in AssignHands}

InitAssign ==
    /\ inLandmarks \in AssignFrames
    /\ gesture = "NONE"
    /\ BackendIdle
    /\ history = <<>>
    /\ lastAppend = <<>>
    /\ insights = <<>>
    /\ gs = createInitialState("TACTICAL")
    /\ lastAction = NoAction
    /\ pc = "frame"
    /\ inState = createInitialState("TACTICAL")
    /\ hitRun = 0
    /\ TrackerIdle
    /\ AppIdle

\* newState of onResults for the frame
ApplyClassifyFrame ==
    /\ pc = "frame"
    /\ gesture' = classifyFrame(inLandmarks)
    /\ pc' = "newState"
    /\ UNCHANGED classifyFrame_

SpecAssign == InitAssign /\ [][ApplyClassifyFrame]_vars

\* the detected hands left of the midpoint, and the others
LeftOfMidpoint == {i \in 1..Len(inLandmarks) : inLandmarks[i][WRIST].x < 50}
RightOfMidpoint == {i \in 1..Len(inLandmarks) : inLandmarks[i][WRIST].x >= 50}

\* the hand of a side that is last in detection order
LastOf(side) == inLandmarks[CHOOSE i \in side : \A j \in side : j <= i]

\* C33: for every frame, leftHandPresent is true exactly when some detected
\* hand has wrist x < 0.5 and rightHandPresent exactly when some has wrist
\* x >= 0.5; movement comes only from a hand left of the midpoint and combat
\* only from a hand on the other side (the later hand in detection order
\* deciding), so movement is STOP without a left hand and combat IDLE without
\* a right hand.
C33_RolesByWristSide ==
    pc = "newState" =>
        /\ gesture.leftHandPresent <=> LeftOfMidpoint # {}
        /\ gesture.rightHandPresent <=> RightOfMidpoint # {}
        /\ gesture.movement = IF LeftOfMidpoint = {} THEN "STOP"
                              ELSE detectMovement(LastOf(LeftOfMidpoint))
        /\ gesture.combat = IF RightOfMidpoint = {} THEN "IDLE"
                            ELSE detectCombat(LastOf(RightOfMidpoint))

\* two hands right of the midpoint, one of them on it: the second decides
C33_Witness ==
    /\ pc = "newState"
    /\ Len(inLandmarks) = 2
    /\ inLandmarks[1][WRIST].x = 75
    /\ inLandmarks[2][WRIST].x = 50
    /\ detectCombat(inLandmarks[1]) # detectCombat(inLandmarks[2])
    /\ gesture.combat = detectCombat(inLandmarks[2])
    /\ gesture.movement = "STOP" /\ ~gesture.leftHandPresent

(***************************************************************************)
(* SpecLoop: the life of the HandTracker effect.  App passes the setters   *)
(* setHandState and setCameraError as onUpdate and onError, so the effect  *)
(* runs once, at mount, and its cleanup runs at unmount.  Init is the      *)
(* state after the effect ran: getUserMedia is pending.                    *)
(***************************************************************************)
LoopFrames ==
    {<<>>, <<RelaxedHandAt(Pt(25, 30))>>, <<GunHandAt(Pt(75, 60))>>}

\* the hands.send requests made so far
FramesSent == Len(frameLog) + loop.inFlight - loop.delivered

\* mutant: hands.send is not awaited
continueAfter_NoAwait(sending) == "raf"

\* processFrame after its if statement: await hands.send when a frame was
\* sent, requestAnimationFrame(processFrame) at once otherwise
continueAfter(sending) == IF sending THEN "await" ELSE "raf"

\* processFrame up to its first await; ready is readyState >= 2
processFrame(ready) ==
    LET sending == canvasRef /\ ready   \* videoRef.current && readyState >= 2
    IN  /\ sending => FramesSent < MaxFrames
        /\ loop' = [loop EXCEPT !.pc = continueAfter(sending),
                                !.inFlight = IF sending THEN @ + 1 ELSE @]

\* the body of onResults for the hands of one frame
onResults(hands) ==
    IF ~canvasRef
    THEN UNCHANGED <<lastStateRef, frameLog>>
    ELSE LET newState == classifyFrame(hands)
             propagate == shouldPropagate(lastStateRef, newState)
         IN  /\ lastStateRef' = IF propagate THEN newState ELSE lastStateRef
             /\ frameLog' = Append(frameLog,
                     [seen |-> MovementSeen(hands), newState |-> newState,
                      onUpdate |-> propagate])

loopFrame == <<sideVars, reducerVars, appVars, libVars>>

\* getUserMedia resolves: streamRef.current = stream, and srcObject and
\* onloadedmetadata are set when the video element is still there
getUserMediaResolves ==
    /\ camera.getUserMedia = "pending"
    /\ camera' = [camera EXCEPT !.getUserMedia = "resolved",
                                !.tracks = "live",
                                !.loadedmetadata = IF canvasRef THEN "pending" ELSE "none"]
    /\ UNCHANGED <<canvasRef, loop, lastStateRef, frameLog, loopFrame>>

\* getUserMedia rejects: the catch block reports the message through onError
getUserMediaRejects ==
    /\ camera.getUserMedia = "pending"
    /\ camera' = [camera EXCEPT !.getUserMedia = "rejected", !.onError = TRUE]
    /\ UNCHANGED <<canvasRef, loop, lastStateRef, frameLog, loopFrame>>

\* the video element reports its metadata, once per srcObject, while the
\* stream is live: play, setCameraActive(true), processFrame()
onloadedmetadata ==
    /\ camera.loadedmetadata = "pending"
    /\ canvasRef
    /\ camera' = [camera EXCEPT !.loadedmetadata = "fired", !.cameraActive = TRUE]
    /\ \E ready \in BOOLEAN : processFrame(ready)
    /\ UNCHANGED <<canvasRef, lastStateRef, frameLog, loopFrame>>

\* the scheduled animation frame arrives: processFrame()
animationFrame ==
    /\ loop.pc = "raf"
    /\ \E ready \in BOOLEAN : processFrame(ready)
    /\ UNCHANGED <<canvasRef, camera, lastStateRef, frameLog, loopFrame>>

\* the detector calls onResults for a request in flight
onResultsCallback ==
    /\ loop.delivered < loop.inFlight
    /\ \E hands \in LoopFrames : onResults(hands)
    /\ loop' = [loop EXCEPT !.delivered = @ + 1]
    /\ UNCHANGED <<canvasRef, camera, loopFrame>>

\* hands.send resolves after its onResults: processFrame resumes after the
\* await and sets animationFrameId = requestAnimationFrame(processFrame)
sendResolves ==
    /\ loop.delivered > 0
    /\ loop' = [loop EXCEPT !.inFlight = @ - 1, !.delivered = @ - 1,
                            !.pc = IF @ = "await" THEN "raf" ELSE @]
    /\ UNCHANGED <<canvasRef, camera, lastStateRef, frameLog, loopFrame>>

\* the component unmounts: the refs are detached and the effect's cleanup
\* cancels the frame animationFrameId names, if it is still scheduled, and
\* stops the tracks of streamRef.current, if it is set
teardown ==
    /\ canvasRef
    /\ canvasRef' = FALSE
    /\ loop' = [loop EXCEPT !.pc = IF @ = "raf" THEN "cancelled" ELSE @]
    /\ camera' = [camera EXCEPT !.tracks = IF @ = "live" THEN "stopped" ELSE @]
    /\ UNCHANGED <<lastStateRef, frameLog, loopFrame>>

InitLoop ==
    /\ gs = createInitialState("TACTICAL")
    /\ lastAction = NoAction
    /\ pc = "loop"
    /\ inState = createInitialState("TACTICAL")
    /\ hitRun = 0
    /\ TrackerIdle
    /\ AppIdle
    /\ LibIdle

NextLoop ==
    \/ getUserMediaResolves
    \/ getUserMediaRejects
    \/ onloadedmetadata
    \/ animationFrame
    \/ onResultsCallback
    \/ sendResolves
    \/ teardown

SpecLoop == InitLoop /\ [][NextLoop]_vars

\* C34: classification passes never overlap: at most one hands.send request
\* is in flight at any time, and an animation frame is requested only when
\* the previous request and its onResults callback have completed.
C34_DetectionsNeverOverlap ==
    /\ loop.inFlight <= 1
    /\ loop.pc = "raf" => loop.inFlight = 0

\* two detections have completed one after the other and the third frame is
\* requested
C34_Witness ==
    /\ loop.pc = "raf"
    /\ loop.inFlight = 0
    /\ Len(frameLog) = 2
    /\ canvasRef

\* C35: after the teardown of the HandTracker the frame loop stops: no step
\* leaves an animation frame scheduled, sends a frame to the detector or
\* calls onUpdate, whenever the teardown happened, also while a detection
\* request was awaited.
C35_LoopStopsAfterTeardown ==
    [][~canvasRef =>
            /\ loop'.pc # "raf"
            /\ loop'.inFlight <= loop.inFlight
            /\ frameLog' = frameLog]_vars

\* C36: every camera stream the HandTracker acquired is stopped by the
\* teardown, also when the teardown runs before getUserMedia has resolved.
C36_StreamStoppedByTeardown ==
    ~canvasRef => camera.tracks # "live"

(***************************************************************************)
(* SpecGenerator: the CinematicGenerator overlay.  A request is a record   *)
(* of generator.requests; generatedVideoUrl is NULL or the number of the   *)
(* request whose blob is shown; requestAbortRef is NULL or the number of   *)
(* the request whose AbortController it holds.  An event handler and the   *)
(* commit of its state updates, with the effects of that commit, are one   *)
(* step.  A fetch that is aborted rejects at once, so the catch and        *)
(* finally blocks of its startGeneration run in the step that aborts it.   *)
(***************************************************************************)
MaxGenerations == 3

\* requestAbortRef.current?.abort(), called by who: a request in flight is
\* aborted and its startGeneration runs catch (signal.aborted) and finally
abort(g, who) ==
    LET k == g.requestAbortRef
    IN  IF k = NULL \/ g.requests[k].state # "inflight"
        THEN g
        ELSE [g EXCEPT !.requests[k].state = "aborted",
                       !.requests[k].abortedBy = who,
                       !.status = IF g.mounted THEN "" ELSE @,
                       !.error = IF g.mounted THEN "cancelled" ELSE @,
                       !.isGenerating = IF g.mounted THEN FALSE ELSE @]

\* mutant: the cleanup of the effect only revokes the object URL
effectCleanup_RevokeOnly(g, who) == g

\* the cleanup of the useEffect on [generatedVideoUrl]
effectCleanup(g, who) == abort(g, who)

\* the commit after a handler changed the state from before to g: the cleanup
\* of the effect runs when generatedVideoUrl changed
commitGenerator(before, g) ==
    IF before.generatedVideoUrl # g.generatedVideoUrl
    THEN effectCleanup(g, "effect on generatedVideoUrl")
    ELSE g

generatorFrame == <<fault, returned, canvasRef, camera, loop, lastStateRef, frameLog, reducerVars, appVars,
                    libVars>>

\* handleImageUpload with an allowed image, and the reader's onloadend
handleImageUpload ==
    /\ generator.mounted
    /\ ~generator.selectedImage
    /\ generator' = [generator EXCEPT !.error = "", !.selectedImage = TRUE]
    /\ UNCHANGED generatorFrame

setAspectRatio ==
    /\ generator.mounted
    /\ \E ratio \in {"16:9", "9:16"} :
        /\ ratio # generator.aspectRatio
        /\ generator' = [generator EXCEPT !.aspectRatio = ratio]
    /\ UNCHANGED generatorFrame

\* startGeneration up to its await (the button is enabled with an image
\* selected and no generation under way), and the commit that follows
startGeneration ==
    /\ generator.mounted
    /\ generator.selectedImage /\ ~generator.isGenerating
    /\ Len(generator.requests) < MaxGenerations
    /\ LET aborted == abort(generator, "startGeneration")
           k == Len(generator.requests) + 1
           started == [aborted EXCEPT
                !.error = "",
                !.isGenerating = TRUE,
                !.generatedVideoUrl = NULL,
                !.requestAbortRef = k,
                !.status = "sending",
                !.requests = Append(@, [state |-> "inflight", abortedBy |-> "",
                                        aspectRatio |-> generator.aspectRatio,
                                        replaces |-> generator.generatedVideoUrl])]
       IN  generator' = commitGenerator(generator, started)
    /\ UNCHANGED generatorFrame

\* the backend answers with a video: startGeneration continues after the
\* await (createObjectURL, setGeneratedVideoUrl, finally), and the commit
requestAnswers ==
    /\ \E k \in 1..Len(generator.requests) :
        /\ generator.requests[k].state = "inflight"
        /\ LET answered == [generator EXCEPT !.requests[k].state = "answered"]
               shown == IF generator.mounted
                        THEN [answered EXCEPT !.generatedVideoUrl = k,
                                              !.status = "rendered",
                                              !.isGenerating = FALSE]
                        ELSE answered
           IN  generator' = commitGenerator(generator, shown)
    /\ UNCHANGED generatorFrame

\* the request fails without being aborted: catch (else branch) and finally
requestFails ==
    /\ \E k \in 1..Len(generator.requests) :
        /\ generator.requests[k].state = "inflight"
        /\ LET failed == [generator EXCEPT !.requests[k].state = "failed"]
           IN  generator' = IF generator.mounted
                            THEN [failed EXCEPT !.error = "failed", !.status = "",
                                                !.isGenerating = FALSE]
                            ELSE failed
    /\ UNCHANGED generatorFrame

\* cancelGeneration (its button shows while isGenerating)
cancelGeneration ==
    /\ generator.mounted
    /\ generator.isGenerating
    /\ generator' = [abort(generator, "cancelGeneration") EXCEPT
                        !.isGenerating = FALSE, !.status = ""]
    /\ UNCHANGED generatorFrame

\* onClose: App unmounts the overlay and the cleanup of the effect runs
unmountGenerator ==
    /\ generator.mounted
    /\ generator' = effectCleanup([generator EXCEPT !.mounted = FALSE], "unmount")
    /\ UNCHANGED generatorFrame

InitGenerator ==
    /\ gs = createInitialState("TACTICAL")
    /\ lastAction = NoAction
    /\ pc = "generator"
    /\ inState = createInitialState("TACTICAL")
    /\ hitRun = 0
    /\ TrackerIdle
    /\ AppIdle
    /\ LibIdle

NextGenerator ==
    \/ handleImageUpload
    \/ setAspectRatio
    \/ startGeneration
    \/ requestAnswers
    \/ requestFails
    \/ cancelGeneration
    \/ unmountGenerator

SpecGenerator == InitGenerator /\ [][NextGenerator]_vars

\* C37: a generation request in flight is aborted only by cancelGeneration,
\* by a newer startGeneration or by unmounting the component; a generation
\* started while a generated video is displayed is not aborted by the
\* component itself and, when the backend answers, ends with the new video
\* shown and isGenerating false.
C37_AbortOnlyOnCancelRestartUnmount ==
    \A k \in 1..Len(generator.requests) :
        LET request == generator.requests[k]
        IN  /\ request.state = "aborted" =>
                    request.abortedBy \in {"cancelGeneration", "startGeneration", "unmount"}
            /\ (request.replaces # NULL /\ request.state = "answered"
                    /\ generator.mounted /\ Len(generator.requests) = k) =>
                    generator.generatedVideoUrl = k /\ ~generator.isGenerating

(***************************************************************************)
(* SpecStoreFault: JsonFileStore.write calls while the file system fails   *)
(* for a time.  A promise that is chained on a rejected promise with then  *)
(* rejects without its callback being called, so a write whose persist is  *)
(* chained on a rejected writeQueue rejects in the step that chains it,    *)
(* and the writes waiting behind a persist that rejects reject with it.    *)
(***************************************************************************)
\* write(): the queue is not rejected, the persist is chained and waits
chainOnResolved ==
    /\ fault.writeQueue = "resolved"
    /\ writeChain

\* write(): this.writeQueue is rejected: this.writeQueue.then(() =>
\* this.persist()) is rejected too, persist is not called, the await throws
chainOnRejected ==
    /\ fault.writeQueue = "rejected"
    /\ \E w \in Writers :
        /\ writes[w].pc = "mutated"
        /\ writes' = [writes EXCEPT ![w].pc = "rejected"]
    /\ UNCHANGED <<store, disk, writeQueue, calls, reply, cinematicService, clock,
                   backendFrame>>

fsWriteFilePartly == fault.fs # "fails" /\ persistWriteFilePartly

fsWriteFile == fault.fs # "fails" /\ persistWriteFile

fsRename == fault.fs # "fails" /\ persistRename

\* persist(): fs.writeFile or fs.rename rejects, so the promise of this
\* persist, which is this.writeQueue or precedes it in the chain, rejects:
\* the write that awaits it throws, and so do the writes chained behind it
persistRejects ==
    /\ fault.fs = "fails"
    /\ \E w \in Persisting :
        writes' = [v \in Writers |->
                        IF v = w \/ writes[v].pc = "queued"
                        THEN [writes[v] EXCEPT !.pc = "rejected"]
                        ELSE writes[v]]
    /\ writeQueue' = <<>>
    /\ fault' = [fault EXCEPT !.writeQueue = "rejected"]
    /\ UNCHANGED <<store, disk, calls, reply, cinematicService, clock, classifyVars,
                   analyticsVars, reducerVars, appVars, lastStateRef, canvasRef, camera, loop,
                   generator, returned, frameLog>>

\* the file system starts to fail (the disk is full, say)
fsFails ==
    /\ fault.fs = "works"
    /\ fault' = [fault EXCEPT !.fs = "fails"]
    /\ UNCHANGED <<backendVars, classifyVars, analyticsVars, reducerVars, appVars,
                   lastStateRef, canvasRef, camera, loop, generator, returned, frameLog>>

\* the file system works again
fsRecovers ==
    /\ fault.fs = "fails"
    /\ fault' = [fault EXCEPT !.fs = "works again",
                              !.callable = {w \in DOMAIN writes : writes[w].pc = "idle"}]
    /\ UNCHANGED <<backendVars, classifyVars, analyticsVars, reducerVars, appVars,
                   lastStateRef, canvasRef, camera, loop, generator, returned, frameLog>>

NextStoreFault ==
    \/ writeMutate
    \/ chainOnResolved
    \/ chainOnRejected
    \/ persistStringify
    \/ fsWriteFilePartly
    \/ fsWriteFile
    \/ fsRename
    \/ persistRejects
    \/ fsFails
    \/ fsRecovers

SpecStoreFault == InitStore /\ [][NextStoreFault]_vars

\* C38: a failed persist does not disable the store: a write() call made
\* once the file system works again does not reject, that is, the write
\* queue does not stay rejected after the write whose persist failed.
C38_WritesResolveAfterRecovery ==
    \A w \in fault.callable : writes[w].pc # "rejected"

(***************************************************************************)
(* SpecRead: what a caller can do with a value the store handed out.  A    *)
(* JavaScript object is handed out by reference: the value read returns is *)
(* the object the selector picked inside this.state, named here by its     *)
(* position in state.users; getSnapshot returns a structuredClone, a value *)
(* of its own.                                                             *)
(***************************************************************************)
\* JsonFileStore.read with the selector of a finder that found users[index]
read(state, index) == [kind |-> "reference", index |-> index]

\* state.users.find((user) => user.id === userId), as a position
findIndex(state, userId) ==
    {i \in 1..Len(state.users) :
        /\ state.users[i].id = userId
        /\ \A j \in 1..(i - 1) : state.users[j].id # userId}

readFrame == <<calls, reply, serverVars, fault, generator, canvasRef, camera, loop, lastStateRef,
               frameLog, classifyVars, analyticsVars, reducerVars, appVars>>

\* repository.findUserById(userId): the record found, or null
readUserById ==
    /\ \E userId \in 0..1 :
        returned' = IF findIndex(store, userId) = {}
                    THEN [kind |-> "null"]
                    ELSE read(store, CHOOSE i \in findIndex(store, userId) : TRUE)
    /\ UNCHANGED <<store, readFrame>>

\* store.getSnapshot().users[index]
getSnapshot ==
    /\ \E index \in 1..Len(store.users) :
        returned' = [kind |-> "snapshot", record |-> store.users[index]]
    /\ UNCHANGED <<store, readFrame>>

\* the caller assigns a field of the record it holds
mutateReturned ==
    /\ returned.kind \in {"reference", "snapshot"}
    /\ \E role \in UserRole, email \in {<<"a">>, <<"x">>} :
        IF returned.kind = "reference"
        THEN /\ store' = [store EXCEPT !.users[returned.index].role = role,
                                       !.users[returned.index].email = email]
             /\ UNCHANGED returned
        ELSE /\ returned' = [returned EXCEPT !.record.role = role, !.record.email = email]
             /\ UNCHANGED store
    /\ UNCHANGED readFrame

InitRead ==
    /\ store \in RouteStores
    /\ calls = <<>>
    /\ reply = <<>>
    /\ ServerIdle
    /\ pc = "read"
    /\ OutsideBackendIdle

NextRead == readUserById \/ getSnapshot \/ mutateReturned

SpecRead == InitRead /\ [][NextRead]_vars

\* C39: store reads are snapshot based: mutating a record returned by
\* JsonFileStore.read, or by a repository finder built on it, leaves the
\* in-memory state of the store unchanged.
C39_ReadsAreSnapshots ==
    [][mutateReturned => store' = store]_vars

====
